---- MODULE Spec2Model ----
(***************************************************************************)
(* Billing profile, subscription records and the Stripe event pipeline of  *)
(* django-stripe-billing (billing/models.py, billing/tasks.py,             *)
(* billing/views/webhook.py, billing/signals.py).                          *)
(***************************************************************************)
EXTENDS Integers, Sequences, FiniteSets, TLC

\* ------------------------------------------------------------------ bounds
\* Instants of the wall clock are 0..MaxTime.
MaxTime == 2
\* At most MaxEvents webhook deliveries are received.
MaxEvents == 2

\* ------------------------------------------------------------ value spaces
\* None for an identifier; None for an instant; a row that does not exist.
Null == "null"
NoTime == -1
NoRow == [missing |-> TRUE]

Times == 0..MaxTime

\* Plan.Type (models.py 44-48)
FREE_DEFAULT == "free_default"
FREE_PRIVATE == "free_private"
PAID_PUBLIC == "paid_public"
PAID_PRIVATE == "paid_private"
PlanTypes == {FREE_DEFAULT, FREE_PRIVATE, PAID_PUBLIC, PAID_PRIVATE}
PaidTypes == {PAID_PUBLIC, PAID_PRIVATE}

\* The catalogue holds one plan of each type (PlanFactory get_or_create on
\* type); a plan is named by its type.  Paid plans carry a price_id, the
\* others none (Plan.clean).
PlanPriceId(p) ==
    CASE p = PAID_PUBLIC -> "price_public"
      [] p = PAID_PRIVATE -> "price_private"
      [] OTHER -> Null

\* Price ids the payment processor may report; "price_gone" matches no Plan.
PriceIds == {"price_public", "price_private", "price_gone"}

\* Plan.objects.get(price_id=...): the plans matching a price id.
PlansWithPrice(price) == {p \in PlanTypes : PlanPriceId(p) = price}

\* StripeSubscription.Status (models.py 340-345)
INCOMPLETE == "incomplete"
INCOMPLETE_EXPIRED == "incomplete_expired"
ACTIVE == "active"
PAST_DUE == "past_due"
CANCELED == "canceled"
SubStatuses == {INCOMPLETE, INCOMPLETE_EXPIRED, ACTIVE, PAST_DUE, CANCELED}

SubIds == {"sub_a", "sub_b"}
CustomerIds == {"cus_1", "cus_2"}

\* Customer.PaymentState as used by tasks.py and factories.py
PaymentStates == {"off", "ok", "requires_payment_method"}

\* --------------------------------------------------------------- variables
VARIABLES
    customer,   \* the Customer row of the account, or NoRow
    subs,       \* StripeSubscription rows by id; NoRow where there is none
    now,        \* timezone.now()
    dbOrder,    \* the order in which the database returns rows that tie on
                \* "created" (order_by("-created") leaves it unspecified)
    events,     \* the StripeEvent rows (the ledger), in order of creation,
                \* each with the position and the in-memory Customer instance
                \* of the process_stripe_event call that handles it
    last,       \* the operation that produced the current state
    STRIPE_WH_SECRET,
                \* whether settings.STRIPE_WH_SECRET is set
    plans       \* the Plan table: the number of FreeDefault rows, and the
                \* position of each get_or_create call that is under way

vars == <<customer, subs, now, dbOrder, events, last, STRIPE_WH_SECRET, plans>>

\* ------------------------------------------------- Customer.subscription
\* customer.stripesubscription_set: rows whose customer is this profile.
stripesubscription_set(S) == {s \in SubIds : S[s] # NoRow /\ S[s].customer}

\* order_by("created") in place of order_by("-created").
ComesBefore_oldest_first(S, a, b) ==
    \/ S[a].created < S[b].created
    \/ S[a].created = S[b].created /\ dbOrder[a] < dbOrder[b]

\* order_by("-created"): a comes before b.
ComesBefore(S, a, b) ==
    \/ S[a].created > S[b].created
    \/ S[a].created = S[b].created /\ dbOrder[a] < dbOrder[b]

\* The first row of a non-empty set of rows in that order.
FirstOf(S, X) == CHOOSE a \in X : \A b \in X \ {a} : ComesBefore(S, a, b)

\* Customer.subscription without the exclusion of deleted records.
subscription_keeps_deleted(c, S) ==
    LET subscriptions == stripesubscription_set(S)
        active == {s \in subscriptions : S[s].status = ACTIVE}
        past_due == {s \in subscriptions : S[s].status = PAST_DUE}
    IN  IF active # {} THEN FirstOf(S, active)
        ELSE IF past_due # {} THEN FirstOf(S, past_due)
        ELSE IF subscriptions # {} THEN FirstOf(S, subscriptions)
        ELSE Null

subscription(c, S) ==
    LET subscriptions ==
            IF c.plan \notin PaidTypes
            THEN {s \in stripesubscription_set(S) :
                      S[s].status \notin {CANCELED, INCOMPLETE_EXPIRED}}
            ELSE stripesubscription_set(S)
        active == {s \in subscriptions : S[s].status = ACTIVE}
        past_due == {s \in subscriptions : S[s].status = PAST_DUE}
    IN  IF active # {} THEN FirstOf(S, active)
        ELSE IF past_due # {} THEN FirstOf(S, past_due)
        ELSE IF subscriptions # {} THEN FirstOf(S, subscriptions)
        ELSE Null

\* ---------------------------------------------------------- Customer.state
\* Customer.state without the missed-webhook case.
state_without_missed_webhook(c, S, t) ==
    LET sub == subscription(c, S)
        cpe == c.current_period_end
    IN  IF c.plan = FREE_DEFAULT /\ cpe = NoTime /\ sub = Null
        THEN "free_default.new"
        ELSE IF /\ c.plan \in PaidTypes
                /\ cpe # NoTime
                /\ cpe > t
                /\ sub # Null
                /\ S[sub].status = ACTIVE
                /\ S[sub].cancel_at_period_end = FALSE
        THEN "paid.paying"
        ELSE IF /\ c.plan \in PaidTypes
                /\ cpe # NoTime
                /\ cpe > t
                /\ sub # Null
                /\ S[sub].status = ACTIVE
                /\ S[sub].cancel_at_period_end = TRUE
        THEN "paid.will_cancel"
        ELSE IF c.plan = FREE_PRIVATE /\ cpe = NoTime /\ sub = Null
        THEN "free_private.indefinite"
        ELSE IF c.plan = FREE_PRIVATE /\ cpe # NoTime /\ cpe > t /\ sub = Null
        THEN "free_private.will_expire"
        ELSE IF c.plan = FREE_PRIVATE /\ cpe # NoTime /\ cpe < t /\ sub = Null
        THEN "free_private.expired"
        ELSE IF /\ c.plan = FREE_DEFAULT
                /\ cpe = NoTime
                /\ sub # Null
                /\ S[sub].status = INCOMPLETE
        THEN "free_default.incomplete.requires_payment_method"
        ELSE IF /\ c.plan \in PaidTypes
                /\ cpe # NoTime
                /\ cpe < t
                /\ sub # Null
                /\ S[sub].status = PAST_DUE
        THEN "free_default.past_due.requires_payment_method"
        ELSE IF /\ c.plan \in PaidTypes
                /\ cpe # NoTime
                /\ cpe >= t
                /\ sub # Null
                /\ S[sub].status = PAST_DUE
        THEN "paid.past_due.requires_payment_method"
        ELSE "invalid"

state(c, S, t) ==
    LET sub == subscription(c, S)
        cpe == c.current_period_end
    IN  IF c.plan = FREE_DEFAULT /\ cpe = NoTime /\ sub = Null
        THEN "free_default.new"
        ELSE IF /\ c.plan # FREE_DEFAULT
                /\ cpe # NoTime
                /\ cpe < t
                /\ sub # Null
                /\ S[sub].status = ACTIVE
                /\ S[sub].cancel_at_period_end = TRUE
        THEN "free_default.canceled.missed_webhook"
        ELSE IF /\ c.plan \in PaidTypes
                /\ cpe # NoTime
                /\ cpe > t
                /\ sub # Null
                /\ S[sub].status = ACTIVE
                /\ S[sub].cancel_at_period_end = FALSE
        THEN "paid.paying"
        ELSE IF /\ c.plan \in PaidTypes
                /\ cpe # NoTime
                /\ cpe > t
                /\ sub # Null
                /\ S[sub].status = ACTIVE
                /\ S[sub].cancel_at_period_end = TRUE
        THEN "paid.will_cancel"
        ELSE IF c.plan = FREE_PRIVATE /\ cpe = NoTime /\ sub = Null
        THEN "free_private.indefinite"
        ELSE IF c.plan = FREE_PRIVATE /\ cpe # NoTime /\ cpe > t /\ sub = Null
        THEN "free_private.will_expire"
        ELSE IF c.plan = FREE_PRIVATE /\ cpe # NoTime /\ cpe < t /\ sub = Null
        THEN "free_private.expired"
        ELSE IF /\ c.plan = FREE_DEFAULT
                /\ cpe = NoTime
                /\ sub # Null
                /\ S[sub].status = INCOMPLETE
        THEN "free_default.incomplete.requires_payment_method"
        ELSE IF /\ c.plan \in PaidTypes
                /\ cpe # NoTime
                /\ cpe < t
                /\ sub # Null
                /\ S[sub].status = PAST_DUE
        THEN "free_default.past_due.requires_payment_method"
        ELSE IF /\ c.plan \in PaidTypes
                /\ cpe # NoTime
                /\ cpe >= t
                /\ sub # Null
                /\ S[sub].status = PAST_DUE
        THEN "paid.past_due.requires_payment_method"
        ELSE "invalid"

\* The plan read with every profile's own plan, expired or not.
get_limit_plan_ignores_expiry(c, t) == c.plan

\* The plan read with a period that ends now counted as expired.
get_limit_plan_expires_at_boundary(c, t) ==
    LET plan_expired ==
            c.current_period_end # NoTime /\ c.current_period_end <= t
    IN  IF plan_expired THEN FREE_DEFAULT
        ELSE IF c.current_period_end = NoTime /\ c.plan \in PaidTypes
        THEN FREE_DEFAULT
        ELSE c.plan

\* ------------------------------------------------------ Customer.get_limit
\* The plan get_limit reads the limit from.
get_limit_plan(c, t) ==
    LET plan_expired ==
            c.current_period_end # NoTime /\ c.current_period_end < t
    IN  IF plan_expired THEN FREE_DEFAULT
        ELSE IF c.current_period_end = NoTime /\ c.plan \in PaidTypes
        THEN FREE_DEFAULT
        ELSE c.plan

\* CustomerSerializer.get_plan (serializers.py 31-51): the plan a profile
\* is shown.
get_plan(c, t) ==
    LET plan_expired ==
            c.current_period_end # NoTime /\ c.current_period_end < t
    IN  IF plan_expired THEN FREE_DEFAULT
        ELSE IF c.current_period_end = NoTime /\ c.plan = PAID_PUBLIC
        THEN FREE_DEFAULT
        ELSE c.plan

\* No PlanLimit row, no Limit row.
NoValue == -1
\* The default of the Limit and the values of the PlanLimit rows, as the
\* tests of get_limit set them.
LIMIT_DEFAULT == 98
PlanLimitValue(p) == IF p = FREE_DEFAULT THEN 50 ELSE 0

\* The Limit and PlanLimit tables for one limit name: the Limit's default
\* (NoValue when no Limit of the name exists) and each plan's PlanLimit
\* value (NoValue when the plan has none); a PlanLimit refers to a Limit.
LimitTables ==
    {T \in [default : {NoValue, LIMIT_DEFAULT},
            plan_limit : [PlanTypes -> {NoValue, 0, 50}]] :
        /\ \A p \in PlanTypes : T.plan_limit[p] \in {NoValue, PlanLimitValue(p)}
        /\ T.default = NoValue => \A p \in PlanTypes : T.plan_limit[p] = NoValue}

\* Customer.get_limit(name) over tables T: the value returned, or that
\* Limit.objects.get raised DoesNotExist.
get_limit(c, t, T) ==
    LET plan == get_limit_plan(c, t)
        limit == T.plan_limit[plan]
    IN  IF limit # NoValue
        THEN [raised |-> FALSE, plan |-> plan, value |-> limit]
        ELSE IF T.default = NoValue
        THEN [raised |-> TRUE, plan |-> plan, value |-> NoValue]
        ELSE [raised |-> FALSE, plan |-> plan, value |-> T.default]

\* ------------------------------------- StripeSubscription.sync_to_customer
\* Plan.objects.get(price_id=...) raises DoesNotExist before anything is
\* assigned when an active record's price matches no plan.
sync_raises(r) == r.status = ACTIVE /\ PlansWithPrice(r.price_id) = {}

\* sync_to_customer that downgrades on every status but active.
sync_to_customer_downgrades_past_due(r, c) ==
    IF r.status = ACTIVE
    THEN [c EXCEPT !.plan = CHOOSE p \in PlansWithPrice(r.price_id) : TRUE,
                   !.current_period_end = r.current_period_end]
    ELSE [c EXCEPT !.plan = FREE_DEFAULT, !.current_period_end = NoTime]

\* The Customer row after record r has been synchronised to profile c.
sync_to_customer(r, c) ==
    LET c1 == IF r.status = ACTIVE
              THEN [c EXCEPT !.plan = CHOOSE p \in PlansWithPrice(r.price_id) : TRUE,
                             !.current_period_end = r.current_period_end]
              ELSE c
        c2 == IF r.status \in {CANCELED, INCOMPLETE_EXPIRED}
              THEN [c1 EXCEPT !.plan = FREE_DEFAULT,
                              !.current_period_end = NoTime]
              ELSE c1
        c3 == IF r.status = INCOMPLETE
              THEN [c2 EXCEPT !.plan = FREE_DEFAULT,
                              !.current_period_end = NoTime]
              ELSE c2
    IN  c3

\* ------------------------------------------------- Stripe event payloads
\* StripeEvent.Type as used by tasks.py
NEW_SUB == "new_sub"
RENEW_SUB == "renew_sub"
PAYMENT_FAIL == "payment_fail"
PAYMENT_FIX == "payment_fix"
CANCEL_SUB == "cancel_sub"
REACTIVATE_SUB == "reactivate_sub"
DELETE_SUB == "delete_sub"
UNKNOWN == "unknown"

\* StripeEvent.Status (models.py 410-415)
EVENT_NEW == "new"
PENDING == "pending"
PROCESSED == "processed"
IGNORED == "ignored"
ERROR == "error"

\* The value of StripeEvent.primary when the classifier leaves it alone.
PrimaryDefault == TRUE

InvoiceTypes == {"invoice.paid", "invoice.payment_failed"}
SubscriptionTypes == {"customer.subscription.updated",
                      "customer.subscription.deleted"}

\* The keys of previous_attributes that make an update a renewal attempt.
RenewalKeys == {"current_period_end", "current_period_start", "latest_invoice"}

\* The account's e-mail, and the e-mail of a Stripe customer
\* (stripe.Customer.retrieve(id).email).
UserEmail == "user@example.com"
StripeCustomerEmail(cid) ==
    IF cid \in CustomerIds THEN UserEmail ELSE "stranger@example.com"

\* A payload: the fields of the event body the pipeline reads.  id is the
\* event's external id; signed tells whether the Stripe-Signature header
\* verifies against the body.
Payload(id, ptype, reason, cus, sub, price, pe, status, cancel, pkeys, pcancel, pstatus) ==
    [id |-> id, ptype |-> ptype, billing_reason |-> reason, customer |-> cus,
     subscription |-> sub, price_id |-> price, period_end |-> pe,
     status |-> status, cancel_at_period_end |-> cancel,
     prev_keys |-> pkeys, prev_cancel |-> pcancel, prev_status |-> pstatus,
     signed |-> TRUE]

\* The classifier with the renewal attempt reported by an update taken
\* for the renewal itself.
preprocess_payload_type_renewal_primary(p) ==
    LET T(type, primary, note) == [type |-> type, primary |-> primary, note |-> note]
        bad_reason == "Unrecognized billing_reason"
    IN  IF p.ptype = "invoice.paid"
        THEN IF p.billing_reason = "subscription_create"
             THEN T(NEW_SUB, TRUE, "")
             ELSE IF p.billing_reason = "subscription_cycle"
             THEN T(RENEW_SUB, TRUE, "")
             ELSE T(UNKNOWN, PrimaryDefault, bad_reason)
        ELSE IF p.ptype = "invoice.payment_failed"
        THEN LET first == IF p.billing_reason = "subscription_create"
                          THEN T(PAYMENT_FAIL, TRUE, "")
                          ELSE T(UNKNOWN, PrimaryDefault, "")
             IN  IF p.billing_reason = "subscription_cycle"
                 THEN T(PAYMENT_FAIL, TRUE, "")
                 ELSE T(first.type, first.primary, bad_reason)
        ELSE IF p.ptype = "customer.subscription.updated"
        THEN IF /\ p.cancel_at_period_end = TRUE
                /\ "cancel_at_period_end" \in p.prev_keys
                /\ p.prev_cancel = FALSE
             THEN T(CANCEL_SUB, TRUE, "")
             ELSE IF /\ p.cancel_at_period_end = FALSE
                     /\ "cancel_at_period_end" \in p.prev_keys
                     /\ p.prev_cancel = TRUE
             THEN T(REACTIVATE_SUB, TRUE, "")
             ELSE IF p.prev_keys = RenewalKeys
             THEN T(RENEW_SUB, TRUE, "")
             ELSE IF /\ "status" \in p.prev_keys
                     /\ p.prev_status = INCOMPLETE
                     /\ p.status = ACTIVE
             THEN T(NEW_SUB, FALSE, "")
             ELSE IF /\ "status" \in p.prev_keys
                     /\ p.prev_status = ACTIVE
                     /\ p.status = PAST_DUE
             THEN T(PAYMENT_FAIL, FALSE, "")
             ELSE IF /\ "status" \in p.prev_keys
                     /\ p.prev_status = PAST_DUE
                     /\ p.status = ACTIVE
             THEN T(PAYMENT_FIX, FALSE, "")
             ELSE T(UNKNOWN, PrimaryDefault, "Unrecognized payload")
        ELSE IF p.ptype = "customer.subscription.deleted"
        THEN T(DELETE_SUB, TRUE, "")
        ELSE T(UNKNOWN, PrimaryDefault, "")

\* -------------------------------------------- tasks._preprocess_payload_type
preprocess_payload_type(p) ==
    LET T(type, primary, note) == [type |-> type, primary |-> primary, note |-> note]
        bad_reason == "Unrecognized billing_reason"
    IN  IF p.ptype = "invoice.paid"
        THEN IF p.billing_reason = "subscription_create"
             THEN T(NEW_SUB, TRUE, "")
             ELSE IF p.billing_reason = "subscription_cycle"
             THEN T(RENEW_SUB, TRUE, "")
             ELSE T(UNKNOWN, PrimaryDefault, bad_reason)
        ELSE IF p.ptype = "invoice.payment_failed"
        THEN LET first == IF p.billing_reason = "subscription_create"
                          THEN T(PAYMENT_FAIL, TRUE, "")
                          ELSE T(UNKNOWN, PrimaryDefault, "")
             IN  IF p.billing_reason = "subscription_cycle"
                 THEN T(PAYMENT_FAIL, TRUE, "")
                 ELSE T(first.type, first.primary, bad_reason)
        ELSE IF p.ptype = "customer.subscription.updated"
        THEN IF /\ p.cancel_at_period_end = TRUE
                /\ "cancel_at_period_end" \in p.prev_keys
                /\ p.prev_cancel = FALSE
             THEN T(CANCEL_SUB, TRUE, "")
             ELSE IF /\ p.cancel_at_period_end = FALSE
                     /\ "cancel_at_period_end" \in p.prev_keys
                     /\ p.prev_cancel = TRUE
             THEN T(REACTIVATE_SUB, TRUE, "")
             ELSE IF p.prev_keys = RenewalKeys
             THEN T(RENEW_SUB, FALSE, "")
             ELSE IF /\ "status" \in p.prev_keys
                     /\ p.prev_status = INCOMPLETE
                     /\ p.status = ACTIVE
             THEN T(NEW_SUB, FALSE, "")
             ELSE IF /\ "status" \in p.prev_keys
                     /\ p.prev_status = ACTIVE
                     /\ p.status = PAST_DUE
             THEN T(PAYMENT_FAIL, FALSE, "")
             ELSE IF /\ "status" \in p.prev_keys
                     /\ p.prev_status = PAST_DUE
                     /\ p.status = ACTIVE
             THEN T(PAYMENT_FIX, FALSE, "")
             ELSE T(UNKNOWN, PrimaryDefault, "Unrecognized payload")
        ELSE IF p.ptype = "customer.subscription.deleted"
        THEN T(DELETE_SUB, TRUE, "")
        ELSE T(UNKNOWN, PrimaryDefault, "")

\* ------------------------------------------------ tasks._preprocess_type_info
\* Whether event.info gets its keys (customer_id, subscription_id, ...):
\* only for invoice.* and customer.subscription.* payloads.
preprocess_type_info(p) == p.ptype \in InvoiceTypes \cup SubscriptionTypes

\* from datetime.fromtimestamp(ts, tz=utc): instants are whole seconds here.
fromtimestamp(ts) == ts

\* ------------------------------------------------- tasks._preprocess_customer
\* c is the Customer row in the database (NoRow when the account is gone).
\* The result tells whether the step raised, whether a customer was found
\* (event.user set), and the Customer instance after the step, which has
\* been saved when its customer_id was filled in.
preprocess_customer(type, p, c) ==
    LET R(raised, found, cust) == [raised |-> raised, found |-> found, cust |-> cust]
        by_id == c # NoRow /\ c.customer_id = p.customer
        by_email == c # NoRow /\ StripeCustomerEmail(p.customer) = UserEmail
    IN  IF ~preprocess_type_info(p)
        THEN R(TRUE, FALSE, NoRow)                \* KeyError: 'customer_id'
        ELSE IF by_id \/ by_email
        THEN R(FALSE, TRUE,
               IF c.customer_id = Null
               THEN [c EXCEPT !.customer_id = p.customer]
               ELSE c)
        ELSE IF type = DELETE_SUB
        THEN R(FALSE, FALSE, NoRow)               \* warning; returns None
        ELSE R(TRUE, FALSE, NoRow)                \* Customer.DoesNotExist

\* ---------------------------------------------------- tasks._integrity_checks
\* found: whether event.user is set.  event.user.customer raises when it is
\* not.  Otherwise the instance after the two self-healing assignments.
integrity_checks_raises(found) == ~found

\* _integrity_checks that only logs a differing customer id.
integrity_checks_keeps_customer_id(p, c) ==
    IF c.subscription_id # Null /\ c.subscription_id # p.subscription
    THEN [c EXCEPT !.subscription_id = p.subscription]
    ELSE c

integrity_checks(p, c) ==
    LET c1 == IF c.customer_id # p.customer
              THEN [c EXCEPT !.customer_id = p.customer]
              ELSE c
        c2 == IF c1.subscription_id # Null /\ c1.subscription_id # p.subscription
              THEN [c1 EXCEPT !.subscription_id = p.subscription]
              ELSE c1
    IN  c2

\* ------------------------------- tasks.process_stripe_event, lines 225-283
\* A successful checkout (lines 229-242): status and Customer instance.
\* Plan.objects.get raises DoesNotExist before anything is assigned.
new_sub_effect_rejects_known(p, c) ==
    IF PlansWithPrice(p.price_id) = {} \/ c.subscription_id = p.subscription
    THEN [status |-> ERROR, cust |-> c]
    ELSE [status |-> PROCESSED,
          cust |-> [c EXCEPT !.subscription_id = p.subscription,
                             !.plan = CHOOSE x \in PlansWithPrice(p.price_id) : TRUE,
                             !.current_period_end = fromtimestamp(p.period_end),
                             !.payment_state = "ok"]]

\* A checkout that assigns the period end and the subscription id before it
\* looks the plan up.
new_sub_effect_assigns_first(p, c) ==
    IF PlansWithPrice(p.price_id) = {}
    THEN [status |-> ERROR,
          cust |-> [c EXCEPT !.subscription_id = p.subscription,
                             !.current_period_end = fromtimestamp(p.period_end)]]
    ELSE [status |-> PROCESSED,
          cust |-> [c EXCEPT !.subscription_id = p.subscription,
                             !.plan = CHOOSE x \in PlansWithPrice(p.price_id) : TRUE,
                             !.current_period_end = fromtimestamp(p.period_end),
                             !.payment_state = "ok"]]

new_sub_effect(p, c) ==
    IF PlansWithPrice(p.price_id) = {}
    THEN [status |-> ERROR, cust |-> c]
    ELSE [status |-> PROCESSED,
          cust |-> [c EXCEPT !.subscription_id = p.subscription,
                             !.plan = CHOOSE x \in PlansWithPrice(p.price_id) : TRUE,
                             !.current_period_end = fromtimestamp(p.period_end),
                             !.payment_state = "ok"]]

\* The final cancelation (lines 268-280).
delete_sub_effect(c) ==
    IF c # NoRow
    THEN [status |-> PROCESSED,
          cust |-> [c EXCEPT !.payment_state = "off",
                             !.plan = FREE_DEFAULT,
                             !.current_period_end = NoTime,
                             !.subscription_id = Null]]
    ELSE [status |-> PROCESSED, cust |-> c]

\* apply_effect with a cancelation downgrading at once, as a deletion does.
apply_effect_cancel_downgrades(type, primary, p, c) ==
    LET R(status, cust) == [status |-> status, cust |-> cust]
    IN  IF primary = FALSE
        THEN R(IGNORED, c)
        ELSE IF type = NEW_SUB
        THEN new_sub_effect(p, c)
        ELSE IF type = RENEW_SUB
        THEN R(PROCESSED, [c EXCEPT !.current_period_end = fromtimestamp(p.period_end)])
        ELSE IF type = PAYMENT_FAIL
        THEN R(PROCESSED, [c EXCEPT !.payment_state = "requires_payment_method"])
        ELSE IF type = CANCEL_SUB
        THEN delete_sub_effect(c)
        ELSE IF type = REACTIVATE_SUB
        THEN R(PROCESSED, [c EXCEPT !.payment_state = "ok"])
        ELSE IF type = DELETE_SUB
        THEN delete_sub_effect(c)
        ELSE R(IGNORED, c)

\* apply_effect with a renewal that extends nothing.
apply_effect_renew_keeps_period(type, primary, p, c) ==
    LET R(status, cust) == [status |-> status, cust |-> cust]
    IN  IF primary = FALSE
        THEN R(IGNORED, c)
        ELSE IF type = NEW_SUB
        THEN new_sub_effect(p, c)
        ELSE IF type = RENEW_SUB
        THEN R(PROCESSED, c)
        ELSE IF type = PAYMENT_FAIL
        THEN R(PROCESSED, [c EXCEPT !.payment_state = "requires_payment_method"])
        ELSE IF type = CANCEL_SUB
        THEN R(PROCESSED, [c EXCEPT !.payment_state = "off"])
        ELSE IF type = REACTIVATE_SUB
        THEN R(PROCESSED, [c EXCEPT !.payment_state = "ok"])
        ELSE IF type = DELETE_SUB
        THEN delete_sub_effect(c)
        ELSE R(IGNORED, c)

\* The effects applied to primary and non-primary events alike.
apply_effect_without_primary_test(type, primary, p, c) ==
    LET R(status, cust) == [status |-> status, cust |-> cust]
    IN  IF type = NEW_SUB
        THEN new_sub_effect(p, c)
        ELSE IF type = RENEW_SUB
        THEN R(PROCESSED, [c EXCEPT !.current_period_end = fromtimestamp(p.period_end)])
        ELSE IF type = PAYMENT_FAIL
        THEN R(PROCESSED, [c EXCEPT !.payment_state = "requires_payment_method"])
        ELSE IF type = CANCEL_SUB
        THEN R(PROCESSED, [c EXCEPT !.payment_state = "off"])
        ELSE IF type = REACTIVATE_SUB
        THEN R(PROCESSED, [c EXCEPT !.payment_state = "ok"])
        ELSE IF type = DELETE_SUB
        THEN delete_sub_effect(c)
        ELSE R(IGNORED, c)

\* The effect of a classified event on the in-memory Customer instance c
\* (NoRow when there is none) and the status the event gets.
apply_effect(type, primary, p, c) ==
    LET R(status, cust) == [status |-> status, cust |-> cust]
    IN  IF primary = FALSE
        THEN R(IGNORED, c)
        ELSE IF type = NEW_SUB
        THEN new_sub_effect(p, c)
        ELSE IF type = RENEW_SUB
        THEN R(PROCESSED, [c EXCEPT !.current_period_end = fromtimestamp(p.period_end)])
        ELSE IF type = PAYMENT_FAIL
        THEN R(PROCESSED, [c EXCEPT !.payment_state = "requires_payment_method"])
        ELSE IF type = CANCEL_SUB
        THEN R(PROCESSED, [c EXCEPT !.payment_state = "off"])
        ELSE IF type = REACTIVATE_SUB
        THEN R(PROCESSED, [c EXCEPT !.payment_state = "ok"])
        ELSE IF type = DELETE_SUB
        THEN delete_sub_effect(c)
        ELSE R(IGNORED, c)

\* ------------------------------------------------------ StripeEvent rows
\* A row as stripe_webhook_view creates it, with the call that will process
\* it not yet started (pc "queued").
NewEvent(p, verify) ==
    [payload |-> p, verify_signature |-> verify, status |-> EVENT_NEW, type |-> Null,
     primary |-> PrimaryDefault, user |-> FALSE, note |-> "",
     pc |-> "queued", loc |-> NoRow]

\* The task started without saving the status first.
pickup_without_save(ev) == [ev EXCEPT !.pc = "pending"]

\* process_stripe_event, lines 211-215: the event is fetched, marked pending
\* and saved.
pickup(ev) == [ev EXCEPT !.status = PENDING, !.pc = "pending"]

\* process_stripe_event, lines 217-223 (and 284-292 when a step raises):
\* signature check, classification, info extraction, linkage and integrity
\* checks of event ev against the Customer row c of the database.  Gives the
\* event row and the Customer row of the database after the steps.
\* The steps without the except clause: a step that raises ends the call
\* with the event as it was last saved.
preprocess_without_except(ev, c) ==
    LET p == ev.payload
        cls == preprocess_payload_type(p)
        classified == [ev EXCEPT !.type = cls.type, !.primary = cls.primary,
                                 !.note = IF cls.note = "" THEN @ ELSE cls.note]
        link == preprocess_customer(cls.type, p, c)
        failed(e) == [e EXCEPT !.pc = "done"]
    IN  IF ev.verify_signature /\ STRIPE_WH_SECRET /\ ~p.signed
        THEN [event |-> failed(ev), cust |-> c]
        ELSE IF link.raised
        THEN [event |-> failed(classified), cust |-> c]
        ELSE IF integrity_checks_raises(link.found)
        THEN [event |-> failed(classified), cust |-> c]
        ELSE LET checked == integrity_checks(p, link.cust)
             IN  [event |-> [classified EXCEPT !.user = TRUE, !.pc = "linked",
                                               !.loc = checked],
                  cust |-> checked]

\* The steps with the signature checked after the account has been linked.
preprocess_checks_signature_last(ev, c) ==
    LET p == ev.payload
        cls == preprocess_payload_type(p)
        classified == [ev EXCEPT !.type = cls.type, !.primary = cls.primary,
                                 !.note = IF cls.note = "" THEN @ ELSE cls.note]
        link == preprocess_customer(cls.type, p, c)
        failed(e) == [e EXCEPT !.status = ERROR, !.note = "traceback", !.pc = "done"]
    IN  IF link.raised
        THEN [event |-> failed(classified), cust |-> c]
        ELSE IF integrity_checks_raises(link.found)
        THEN [event |-> failed(classified), cust |-> c]
        ELSE LET checked == integrity_checks(p, link.cust)
             IN  IF ev.verify_signature /\ STRIPE_WH_SECRET /\ ~p.signed
                 THEN [event |-> failed([classified EXCEPT !.user = TRUE]),
                       cust |-> checked]
                 ELSE [event |-> [classified EXCEPT !.user = TRUE, !.pc = "linked",
                                                   !.loc = checked],
                       cust |-> checked]

preprocess(ev, c) ==
    LET p == ev.payload
        cls == preprocess_payload_type(p)
        classified == [ev EXCEPT !.type = cls.type, !.primary = cls.primary,
                                 !.note = IF cls.note = "" THEN @ ELSE cls.note]
        link == preprocess_customer(cls.type, p, c)
        failed(e) == [e EXCEPT !.status = ERROR, !.note = "traceback", !.pc = "done"]
    IN  IF ev.verify_signature /\ STRIPE_WH_SECRET /\ ~p.signed
        THEN [event |-> failed(ev), cust |-> c]
        ELSE IF link.raised
        THEN [event |-> failed(classified), cust |-> c]
        ELSE IF integrity_checks_raises(link.found)
        THEN [event |-> failed(classified), cust |-> c]
        ELSE LET checked == integrity_checks(p, link.cust)
             IN  [event |-> [classified EXCEPT !.user = TRUE, !.pc = "linked",
                                               !.loc = checked],
                  cust |-> checked]

\* process_stripe_event, lines 225-292: the effect is applied to the
\* in-memory instance ev.loc, which is then saved over the Customer row,
\* and the event is saved with its final status.
finish(ev) ==
    LET eff == apply_effect(ev.type, ev.primary, ev.payload, ev.loc)
    IN  [event |-> [ev EXCEPT !.status = eff.status,
                              !.note = IF eff.status = ERROR THEN "traceback" ELSE @,
                              !.pc = "done",
                              !.loc = NoRow],
         cust |-> eff.cust]

\* process_stripe_event run from start to end against Customer row c.
process_stripe_event(ev, c) ==
    LET pre == preprocess(pickup(ev), c)
    IN  IF pre.event.pc = "done" THEN pre ELSE finish(pre.event)

\* ------------------------------------------------------------------ actions
\* The wall clock advances.
Tick ==
    /\ now < MaxTime
    /\ now' = now + 1
    /\ last' = [op |-> "tick", arg |-> Null, ok |-> TRUE]
    /\ UNCHANGED <<customer, subs, dbOrder, events, STRIPE_WH_SECRET, plans>>

\* subscription.sync_to_customer() on the record with id s.
SyncToCustomer(s) ==
    /\ customer # NoRow
    /\ subs[s] # NoRow
    /\ subs[s].customer
    /\ IF sync_raises(subs[s])
       THEN /\ customer' = customer
            /\ last' = [op |-> "sync_to_customer", arg |-> s, ok |-> FALSE]
       ELSE /\ customer' = sync_to_customer(subs[s], customer)
            /\ last' = [op |-> "sync_to_customer", arg |-> s, ok |-> TRUE]
    /\ UNCHANGED <<subs, now, dbOrder, events, STRIPE_WH_SECRET, plans>>

\* ----------------------------------------------------------- the account
\* user_post_save_signal for an account without a Customer: the profile is
\* created on the FreeDefault plan, which get_or_create creates when there
\* is none.
\* --------------------------------------------- cancelling at the processor
\* The states in which the account hooks cancel (signals.py 8-14).
CANCELABLE_STATES ==
    {"paid.paying", "paid.will_cancel",
     "free_default.past_due.requires_payment_method",
     "free_default.incomplete.requires_payment_method",
     "paid.past_due.requires_payment_method"}

\* What is asked of the processor: nothing, or the cancellation of a
\* subscription, at once or at the end of the period.
NoCall == [called |-> FALSE, subscription_id |-> Null, immediate |-> FALSE]

\* Customer.cancel_subscription that marks the record as cancelling before
\* the processor has reported it.
cancel_subscription_marks_record(c, S, immediate) ==
    LET sub == subscription(c, S)
    IN  IF sub = Null
        THEN [cust |-> c, subs |-> S, returned_false |-> TRUE, request |-> NoCall]
        ELSE [cust |-> c,
              subs |-> [S EXCEPT ![sub].cancel_at_period_end = TRUE],
              returned_false |-> FALSE,
              request |-> [called |-> TRUE, subscription_id |-> sub,
                           immediate |-> immediate]]

\* Customer.cancel_subscription: without a subscription it returns False;
\* otherwise it saves the profile as it is and asks the processor.
cancel_subscription(c, S, immediate) ==
    LET sub == subscription(c, S)
    IN  IF sub = Null
        THEN [cust |-> c, subs |-> S, returned_false |-> TRUE, request |-> NoCall]
        ELSE [cust |-> c, subs |-> S, returned_false |-> FALSE,
              request |-> [called |-> TRUE, subscription_id |-> sub,
                           immediate |-> immediate]]

\* The profile Customer.objects.create(user=..., plan=default_plan) makes.
NewCustomer ==
    [customer_id |-> Null, plan |-> FREE_DEFAULT,
     current_period_end |-> NoTime, subscription_id |-> Null,
     payment_state |-> "off"]

\* user_post_save_signal that creates a profile on every save.
user_post_save_signal_always_creates(c, S, t, is_active) ==
    [cust |-> NewCustomer, created |-> TRUE,
     request |-> IF ~is_active /\ state(NewCustomer, S, t) \in CANCELABLE_STATES
                 THEN cancel_subscription(NewCustomer, S, TRUE).request
                 ELSE NoCall]

\* user_post_save_signal on the account whose profile row is c (NoRow when
\* it has none): the profile after the hook, whether it was created, and
\* what was asked of the processor.
user_post_save_signal(c, S, t, is_active) ==
    LET created == c = NoRow
        cust == IF created THEN NewCustomer ELSE c
    IN  [cust |-> cust, created |-> created,
         request |-> IF ~is_active /\ state(cust, S, t) \in CANCELABLE_STATES
                     THEN cancel_subscription(cust, S, TRUE).request
                     ELSE NoCall]

\* user_hard_delete_signal: what is asked of the processor.
user_hard_delete_signal(c, S, t) ==
    IF c # NoRow /\ state(c, S, t) \in CANCELABLE_STATES
    THEN cancel_subscription(c, S, TRUE).request
    ELSE NoCall

CreateUser ==
    /\ customer = NoRow
    /\ LET hook == user_post_save_signal(customer, subs, now, TRUE)
       IN  /\ customer' = hook.cust
           /\ last' = [op |-> "save_user", arg |-> Null, ok |-> TRUE,
                       created |-> hook.created, request |-> hook.request]
    /\ plans' = [plans EXCEPT !.free_default = IF @ = 0 THEN 1 ELSE @]
    /\ UNCHANGED <<subs, now, dbOrder, events, STRIPE_WH_SECRET>>

\* An account that has a profile is saved, active or inactive.
SaveUser(is_active) ==
    /\ customer # NoRow
    /\ LET hook == user_post_save_signal(customer, subs, now, is_active)
       IN  /\ customer' = hook.cust
           /\ last' = [op |-> "save_user",
                       arg |-> IF is_active THEN "active" ELSE "inactive",
                       ok |-> TRUE,
                       created |-> hook.created, request |-> hook.request]
    /\ UNCHANGED <<subs, now, dbOrder, events, STRIPE_WH_SECRET, plans>>

\* The subscription rows after the delete of their Customer row, were
\* StripeSubscription.customer declared on_delete=CASCADE.
customer_cascade(S) == [s \in SubIds |-> NoRow]

\* The subscription rows after the delete of their Customer row:
\* StripeSubscription.customer is on_delete=SET_NULL (models.py 334).
customer_set_null(S) ==
    [s \in SubIds |->
        IF S[s] = NoRow THEN NoRow ELSE [S[s] EXCEPT !.customer = FALSE]]

\* The account is hard-deleted: user_hard_delete_signal runs before the
\* delete, the Customer row goes with the account (CASCADE), the
\* subscription rows and ledger rows lose their reference (SET_NULL).  No
\* process_stripe_event call holds an instance of the row at that moment.
HardDeleteUser ==
    /\ customer # NoRow
    /\ \A i \in 1..Len(events) : events[i].pc # "linked"
    /\ customer' = NoRow
    /\ subs' = customer_set_null(subs)
    /\ events' = [i \in 1..Len(events) |-> [events[i] EXCEPT !.user = FALSE]]
    /\ last' = [op |-> "delete_user", arg |-> Null, ok |-> TRUE,
                request |-> user_hard_delete_signal(customer, subs, now)]
    /\ UNCHANGED <<now, dbOrder, STRIPE_WH_SECRET, plans>>

\* Customer.cancel_subscription is called on the profile.
CancelSubscription(immediate) ==
    /\ customer # NoRow
    /\ LET call == cancel_subscription(customer, subs, immediate)
       IN  /\ customer' = call.cust
           /\ subs' = call.subs
           /\ last' = [op |-> "cancel_subscription",
                       arg |-> IF immediate THEN "immediate" ELSE "at_period_end",
                       ok |-> ~call.returned_false, request |-> call.request]
    /\ UNCHANGED <<now, dbOrder, events, STRIPE_WH_SECRET, plans>>

\* ------------------------------------------------------ the request body
\* What stripe_webhook_view looks at in a request body (webhook.py 15-32):
\* whether the bytes decode as UTF-8, whether json.loads returns a value
\* (it reads UTF-8, UTF-16 and UTF-32), whether the value is a dict, and
\* whether the dict has the keys "type" and "id".
Bodies ==
    {b \in [utf8 : BOOLEAN, is_json : BOOLEAN, is_object : BOOLEAN,
            has_type : BOOLEAN, has_id : BOOLEAN] :
        /\ ~b.is_json => ~b.is_object
        /\ ~b.is_object => ~b.has_type /\ ~b.has_id}

\* The body a payload is the JSON text of.
BodyOf(p) ==
    [utf8 |-> TRUE, is_json |-> TRUE, is_object |-> TRUE,
     has_type |-> p.ptype # Null, has_id |-> p.id # Null]

HTTP_BAD_REQUEST == 400
HTTP_CREATED == 201
HTTP_SERVER_ERROR == 500

\* stripe_webhook_view up to the creation of the row: the answer, and
\* whether a StripeEvent row is created and processing started.  json.loads
\* raises JSONDecodeError on text that is not JSON and UnicodeDecodeError on
\* bytes it cannot decode; only the first is caught (line 17).  The row is
\* created from request.body.decode("utf-8") (line 32), which raises on a
\* body in another encoding.  An exception that leaves the view is answered
\* by the framework with 500.
stripe_webhook_view(b) ==
    IF ~b.is_json
        THEN IF b.utf8
                THEN [status |-> HTTP_BAD_REQUEST, create |-> FALSE]
                ELSE [status |-> HTTP_SERVER_ERROR, create |-> FALSE]
    ELSE IF ~b.is_object \/ ~b.has_type \/ ~b.has_id
        THEN [status |-> HTTP_BAD_REQUEST, create |-> FALSE]
    ELSE IF ~b.utf8
        THEN [status |-> HTTP_SERVER_ERROR, create |-> FALSE]
    ELSE [status |-> HTTP_CREATED, create |-> TRUE]

\* A request: its body and what json.loads makes of it.
Request(p) == [body |-> BodyOf(p), payload |-> p]

\* ------------------------------------------------------ the webhook, inline
\* stripe_webhook_view without celery (webhook.py 29-35, 40): the row is
\* created and process_stripe_event runs to its end inside the request.
WebhookInline(p) ==
    /\ stripe_webhook_view(BodyOf(p)).create
    /\ Len(events) < MaxEvents
    /\ LET run == process_stripe_event(NewEvent(p, TRUE), customer)
       IN  /\ events' = Append(events, run.event)
           /\ customer' = run.cust
    /\ last' = [op |-> "webhook", arg |-> p.id, ok |-> TRUE]
    /\ UNCHANGED <<subs, now, dbOrder, STRIPE_WH_SECRET, plans>>

\* ------------------------------------------------------------- the replay
\* replay_event starting the task with its default arguments.
ReplayOf_verifying(ev) ==
    [NewEvent(ev.payload, TRUE) EXCEPT !.note = "Replay of event pk"]

\* The row StripeEventAdmin.replay_event creates from stored row ev
\* (admin.py 82-89): same event id, body and headers, status new.
ReplayOf(ev) ==
    [NewEvent(ev.payload, FALSE) EXCEPT !.note = "Replay of event pk"]

\* replay_event on stored row i: the new row is created and
\* process_stripe_event runs on it at once, without signature check.
ReplayEvent(i) ==
    /\ Len(events) < MaxEvents
    /\ LET run == process_stripe_event(ReplayOf(events[i]), customer)
       IN  /\ events' = Append(events, run.event)
           /\ customer' = run.cust
    /\ last' = [op |-> "replay", arg |-> i, ok |-> TRUE]
    /\ UNCHANGED <<subs, now, dbOrder, STRIPE_WH_SECRET, plans>>

\* -------------------------------------------------- the webhook, with celery
\* stripe_webhook_view with celery (webhook.py 29-38): the row is created and
\* the task is queued.
Webhook(r) ==
    LET view == stripe_webhook_view(r.body)
    IN  /\ IF view.create
              THEN /\ Len(events) < MaxEvents
                   /\ events' = Append(events, NewEvent(r.payload, TRUE))
                   /\ last' = [op |-> "webhook", arg |-> r.payload.id, ok |-> TRUE,
                               body |-> r.body, response |-> view.status]
              ELSE /\ events' = events
                   /\ last' = [op |-> "webhook_rejected", arg |-> r.payload.id,
                               ok |-> FALSE, body |-> r.body,
                               response |-> view.status]
        /\ UNCHANGED <<customer, subs, now, dbOrder, STRIPE_WH_SECRET, plans>>

\* A worker starts process_stripe_event for row i.
Pickup(i) ==
    /\ events[i].pc = "queued"
    /\ events' = [events EXCEPT ![i] = pickup(@)]
    /\ last' = [op |-> "pickup", arg |-> i, ok |-> TRUE]
    /\ UNCHANGED <<customer, subs, now, dbOrder, STRIPE_WH_SECRET, plans>>

\* The worker of row i runs the steps up to the integrity checks.
Preprocess(i) ==
    /\ events[i].pc = "pending"
    /\ LET pre == preprocess(events[i], customer)
       IN  /\ events' = [events EXCEPT ![i] = pre.event]
           /\ customer' = pre.cust
    /\ last' = [op |-> "preprocess", arg |-> i, ok |-> TRUE]
    /\ UNCHANGED <<subs, now, dbOrder, STRIPE_WH_SECRET, plans>>

\* The worker of row i applies the effect and saves.
Finish(i) ==
    /\ events[i].pc = "linked"
    /\ LET fin == finish(events[i])
       IN  /\ events' = [events EXCEPT ![i] = fin.event]
           /\ customer' = fin.cust
    /\ last' = [op |-> "finish", arg |-> i, ok |-> TRUE]
    /\ UNCHANGED <<subs, now, dbOrder, STRIPE_WH_SECRET, plans>>

\* ---------------------------------------------------------- deliveries
InvoicePaid(id, reason, cus, sub, price, pe) ==
    Payload(id, "invoice.paid", reason, cus, sub, price, pe, Null, FALSE, {}, FALSE, Null)
InvoiceFailed(id, reason, cus, sub, price, pe) ==
    Payload(id, "invoice.payment_failed", reason, cus, sub, price, pe, Null, FALSE, {}, FALSE, Null)
SubscriptionUpdated(id, cus, sub, status, cancel, pkeys, pcancel, pstatus) ==
    Payload(id, "customer.subscription.updated", Null, cus, sub, Null, NoTime,
            status, cancel, pkeys, pcancel, pstatus)
SubscriptionDeleted(id, cus, sub) ==
    Payload(id, "customer.subscription.deleted", Null, cus, sub, Null, NoTime,
            CANCELED, FALSE, {}, FALSE, Null)

EvtNew == InvoicePaid("evt_new", "subscription_create", "cus_1", "sub_a", "price_public", 1)
EvtNewGone == InvoicePaid("evt_new_gone", "subscription_create", "cus_1", "sub_a", "price_gone", 1)
EvtNewB == InvoicePaid("evt_new_b", "subscription_create", "cus_2", "sub_b", "price_private", 2)
EvtRenew == InvoicePaid("evt_renew", "subscription_cycle", "cus_1", "sub_a", "price_public", 2)
\* The invoice of an earlier cycle, delivered late or replayed.
EvtRenewOld == InvoicePaid("evt_renew_old", "subscription_cycle", "cus_1", "sub_a", "price_public", 0)
EvtFail == InvoiceFailed("evt_fail", "subscription_cycle", "cus_1", "sub_a", "price_public", 1)
EvtCancel == SubscriptionUpdated("evt_cancel", "cus_1", "sub_a", ACTIVE, TRUE,
                                 {"cancel_at_period_end"}, FALSE, Null)
EvtReactivate == SubscriptionUpdated("evt_reactivate", "cus_1", "sub_a", ACTIVE, FALSE,
                                     {"cancel_at_period_end"}, TRUE, Null)
EvtPastDue == SubscriptionUpdated("evt_past_due", "cus_1", "sub_a", PAST_DUE, FALSE,
                                  {"status"}, FALSE, ACTIVE)
EvtDelete == SubscriptionDeleted("evt_delete", "cus_1", "sub_a")
EvtDeleteB == SubscriptionDeleted("evt_delete_b", "cus_1", "sub_b")
EvtDeleteStranger == SubscriptionDeleted("evt_delete_x", "cus_x", "sub_a")
EvtBadType == Payload("evt_bad", "bad.type", Null, Null, Null, Null, NoTime,
                      Null, FALSE, {}, FALSE, Null)
\* A delivery whose Stripe-Signature header does not verify.
EvtUnsigned == [EvtNew EXCEPT !.id = "evt_unsigned", !.signed = FALSE]

\* The deliveries the inline pipeline is run on, and the ones the workers
\* are run on.
InlinePayloads == {EvtNew, EvtNewGone, EvtNewB, EvtRenew, EvtFail, EvtCancel,
                   EvtReactivate, EvtPastDue, EvtDelete, EvtDeleteB,
                   EvtDeleteStranger, EvtBadType, EvtUnsigned}
WorkerPayloads == {EvtNew, EvtRenew, EvtDelete, EvtBadType}

\* Requests that are not an event Stripe sends: not JSON, not an object, an
\* object without "type" or without "id", or not encoded in UTF-8.
ParsedAs(b) ==
    [EvtNew EXCEPT !.id = IF b.has_id THEN @ ELSE Null,
                   !.ptype = IF b.has_type THEN @ ELSE Null]
MalformedRequests ==
    {[body |-> b, payload |-> ParsedAs(b)] :
        b \in {x \in Bodies : ~(x.utf8 /\ x.has_type /\ x.has_id)}}
WorkerRequests == {Request(p) : p \in WorkerPayloads} \cup MalformedRequests

\* ----------------------------------------------------------- specifications
\* The callers of Plan.objects.get_or_create(type=FREE_DEFAULT): the save
\* hook of two accounts and the billing_init command.
Callers == {"save_a", "save_b", "billing_init"}

\* The Plan table before any FreeDefault plan has been created.
NoPlans == [free_default |-> 0, pc |-> [k \in Callers |-> "idle"]]

Init ==
    /\ customer = NoRow
    /\ subs = [s \in SubIds |-> NoRow]
    /\ now = 0
    /\ dbOrder = [s \in SubIds |-> IF s = "sub_a" THEN 1 ELSE 2]
    /\ events = <<>>
    /\ last = [op |-> "init", arg |-> Null, ok |-> TRUE]
    /\ STRIPE_WH_SECRET = TRUE
    /\ plans = NoPlans

\* The pipeline run inside the webhook request.
NextInline ==
    \/ CreateUser
    \/ HardDeleteUser
    \/ Tick
    \/ \E p \in InlinePayloads : WebhookInline(p)
    \/ \E i \in 1..Len(events) : ReplayEvent(i)

\* The inline pipeline is run with and without a webhook secret set.
InitInline ==
    /\ customer = NoRow
    /\ subs = [s \in SubIds |-> NoRow]
    /\ now = 0
    /\ dbOrder = [s \in SubIds |-> IF s = "sub_a" THEN 1 ELSE 2]
    /\ events = <<>>
    /\ last = [op |-> "init", arg |-> Null, ok |-> TRUE]
    /\ STRIPE_WH_SECRET \in BOOLEAN
    /\ plans = NoPlans

SpecInline == InitInline /\ [][NextInline]_vars

\* ------------------------------------------- subscription records, by hand
\* The rows a staff member saves through StripeSubscriptionAdmin: the record
\* of subscription sub_a, attached to the profile, in any status.
AdminRows ==
    [customer : {TRUE},
     status : SubStatuses,
     cancel_at_period_end : BOOLEAN,
     current_period_end : {1},
     price_id : {"price_public"},
     created : {0}]

\* The deliveries processed next to records kept by hand.
AdminPayloads == {EvtNew, EvtNewB, EvtRenew, EvtRenewOld, EvtFail, EvtCancel,
                  EvtReactivate, EvtDelete}

\* The add or change form of StripeSubscriptionAdmin is saved (Model.save:
\* the row is written, nothing is synchronised to the profile).
AdminSaveSubscription(r) ==
    /\ customer # NoRow
    /\ subs["sub_a"] # r
    /\ subs' = [subs EXCEPT !["sub_a"] = r]
    /\ last' = [op |-> "admin_save", arg |-> "sub_a", ok |-> TRUE]
    /\ UNCHANGED <<customer, now, dbOrder, events, STRIPE_WH_SECRET, plans>>

\* The inline pipeline next to records kept by hand.
NextAdmin ==
    \/ CreateUser
    \/ HardDeleteUser
    \/ Tick
    \/ \E r \in AdminRows : AdminSaveSubscription(r)
    \/ \E p \in AdminPayloads : WebhookInline(p)

SpecAdmin == Init /\ [][NextAdmin]_vars

\* The account hooks and Customer.cancel_subscription next to records kept
\* by hand and synchronised to the profile.
NextAccount ==
    \/ CreateUser
    \/ \E a \in BOOLEAN : SaveUser(a)
    \/ HardDeleteUser
    \/ Tick
    \/ \E r \in AdminRows : AdminSaveSubscription(r)
    \/ \E s \in SubIds : SyncToCustomer(s)
    \/ \E i \in BOOLEAN : CancelSubscription(i)

SpecAccount == Init /\ [][NextAccount]_vars

\* ------------------------------------- the FreeDefault plan, made on demand
\* An INSERT of a plan of type free_default into a table that holds n of
\* them, without the constraint max_1_free_default_plan.
insert_free_default_unconstrained(n) == [count |-> n + 1, inserted |-> TRUE]

\* The same INSERT under the constraint (models.py 97-108): a second row of
\* the type is refused with IntegrityError.
insert_free_default(n) ==
    IF n = 0
    THEN [count |-> n + 1, inserted |-> TRUE]
    ELSE [count |-> n, inserted |-> FALSE]

\* Plan.objects.get_or_create(type=FREE_DEFAULT), first step: caller k looks
\* for the plan.
GetOrCreateLookup(k) ==
    /\ plans.pc[k] = "idle"
    /\ plans' = [plans EXCEPT !.pc[k] = IF plans.free_default > 0
                                         THEN "done" ELSE "missing"]
    /\ last' = [op |-> "get_or_create_lookup", arg |-> k,
                ok |-> plans.free_default > 0]
    /\ UNCHANGED <<customer, subs, now, dbOrder, events, STRIPE_WH_SECRET>>

\* Second step: caller k, having found none, inserts the plan; when the
\* insert is refused, get_or_create reads the row that is there.
GetOrCreateInsert(k) ==
    /\ plans.pc[k] = "missing"
    /\ LET ins == insert_free_default(plans.free_default)
       IN  /\ plans' = [plans EXCEPT !.free_default = ins.count,
                                     !.pc[k] = "done"]
           /\ last' = [op |-> "get_or_create_insert", arg |-> k,
                       ok |-> ins.inserted]
    /\ UNCHANGED <<customer, subs, now, dbOrder, events, STRIPE_WH_SECRET>>

\* Caller k is started again: the account is saved again, the command is
\* run again.
CallAgain(k) ==
    /\ plans.pc[k] = "done"
    /\ plans' = [plans EXCEPT !.pc[k] = "idle"]
    /\ last' = [op |-> "call_again", arg |-> k, ok |-> TRUE]
    /\ UNCHANGED <<customer, subs, now, dbOrder, events, STRIPE_WH_SECRET>>

NextPlans ==
    \/ Tick
    \/ \E k \in Callers : GetOrCreateLookup(k)
    \/ \E k \in Callers : GetOrCreateInsert(k)
    \/ \E k \in Callers : CallAgain(k)

SpecPlans == Init /\ [][NextPlans]_vars

\* The pipeline run by celery workers.
Next ==
    \/ CreateUser
    \/ HardDeleteUser
    \/ Tick
    \/ \E r \in WorkerRequests : Webhook(r)
    \/ \E i \in 1..Len(events) : Pickup(i)
    \/ \E i \in 1..Len(events) : Preprocess(i)
    \/ \E i \in 1..Len(events) : Finish(i)

Spec == Init /\ [][Next]_vars

\* ------------------------------------------------- a task delivered twice
\* process_stripe_event is invoked once more for row i, whose first
\* invocation has returned (the task is a plain function of the row's key
\* and takes any row).
Redeliver(i) ==
    /\ events[i].pc = "done"
    /\ events' = [events EXCEPT ![i].pc = "queued"]
    /\ last' = [op |-> "redeliver", arg |-> i, ok |-> TRUE]
    /\ UNCHANGED <<customer, subs, now, dbOrder, STRIPE_WH_SECRET, plans>>

NextRedelivery ==
    \/ CreateUser
    \/ HardDeleteUser
    \/ \E r \in WorkerRequests : Webhook(r)
    \/ \E i \in 1..Len(events) : Pickup(i)
    \/ \E i \in 1..Len(events) : Preprocess(i)
    \/ \E i \in 1..Len(events) : Finish(i)
    \/ \E i \in 1..Len(events) : Redeliver(i)

SpecRedelivery == Init /\ [][NextRedelivery]_vars

\* ------------------------------------ the model functions on drawn inputs
\* Period ends and creation instants a record is drawn with.
RecordTimes == {1, 2}

SubscriptionRows ==
    [customer : {TRUE},
     status : SubStatuses,
     cancel_at_period_end : BOOLEAN,
     current_period_end : RecordTimes,
     price_id : {"price_public", "price_gone"},
     created : RecordTimes]

CustomerRows ==
    [customer_id : {"cus_1"},
     plan : PlanTypes,
     current_period_end : Times \cup {NoTime},
     subscription_id : {Null},
     payment_state : {"off"}]

DbOrders == {f \in [SubIds -> 1..Cardinality(SubIds)] :
                 \A a, b \in SubIds : a # b => f[a] # f[b]}

InitFn ==
    /\ customer \in CustomerRows
    /\ subs \in [SubIds -> SubscriptionRows \cup {NoRow}]
    /\ now \in Times
    /\ dbOrder \in DbOrders
    /\ events = <<>>
    /\ last = [op |-> "init", arg |-> Null, ok |-> TRUE]
    /\ STRIPE_WH_SECRET = TRUE
    /\ plans = NoPlans

NextFn ==
    \/ Tick
    \/ \E s \in SubIds : SyncToCustomer(s)

SpecFn == InitFn /\ [][NextFn]_vars

\* ------------------------------------------------- the plan limits are read
\* Customer.get_limit is called for the profile, the tables being T.
GetLimit(T) ==
    /\ customer # NoRow
    /\ LET res == get_limit(customer, now, T)
       IN  last' = [op |-> "get_limit", arg |-> Null, ok |-> ~res.raised,
                    tables |-> T, plan |-> res.plan, value |-> res.value]
    /\ UNCHANGED <<customer, subs, now, dbOrder, events, STRIPE_WH_SECRET, plans>>

\* The profile is serialized for the API.
SerializeCustomer ==
    /\ customer # NoRow
    /\ last' = [op |-> "get_plan", arg |-> Null, ok |-> TRUE,
                plan |-> get_plan(customer, now)]
    /\ UNCHANGED <<customer, subs, now, dbOrder, events, STRIPE_WH_SECRET, plans>>

InitLimits ==
    /\ customer \in CustomerRows
    /\ subs = [s \in SubIds |-> NoRow]
    /\ now \in Times
    /\ dbOrder = [s \in SubIds |-> IF s = "sub_a" THEN 1 ELSE 2]
    /\ events = <<>>
    /\ last = [op |-> "init", arg |-> Null, ok |-> TRUE]
    /\ STRIPE_WH_SECRET = TRUE
    /\ plans = NoPlans

NextLimits ==
    \/ Tick
    \/ \E T \in LimitTables : GetLimit(T)
    \/ SerializeCustomer

SpecLimits == InitLimits /\ [][NextLimits]_vars

\* ------------------------------------------------- the classifier on its own
\* The payloads the classifier is run on: every notification type with
\* every billing reason, cancel flag, status, and previous attributes.
ClassifierPayloads ==
    {Payload("evt_c", ptype, reason, "cus_1", "sub_a", "price_public", 1,
             status, cancel, pkeys, pcancel, pstatus) :
        ptype \in InvoiceTypes \cup SubscriptionTypes \cup {"bad.type"},
        reason \in {"subscription_create", "subscription_cycle", "manual"},
        status \in {INCOMPLETE, ACTIVE, PAST_DUE},
        cancel \in BOOLEAN,
        pkeys \in {{}, {"cancel_at_period_end"}, {"status"},
                   {"cancel_at_period_end", "status"}, RenewalKeys,
                   RenewalKeys \cup {"status"}},
        pcancel \in BOOLEAN,
        pstatus \in {INCOMPLETE, ACTIVE, PAST_DUE}}

\* _preprocess_payload_type runs on payload p.
Classify(p) ==
    /\ LET cls == preprocess_payload_type(p)
       IN  last' = [op |-> "classify", arg |-> p.id, ok |-> TRUE,
                    payload |-> p, type |-> cls.type, primary |-> cls.primary]
    /\ UNCHANGED <<customer, subs, now, dbOrder, events, STRIPE_WH_SECRET, plans>>

NextClassify ==
    \/ Tick
    \/ \E p \in ClassifierPayloads : Classify(p)

SpecClassify == Init /\ [][NextClassify]_vars

\* ------------------------------------------- a change of the payment method
\* customer.subscription.updated deliveries whose previous attributes hold
\* default_payment_method only, for an active and for a past_due
\* subscription.
EvtPaymentMethod ==
    SubscriptionUpdated("evt_pm", "cus_1", "sub_a", ACTIVE, FALSE,
                        {"default_payment_method"}, FALSE, Null)
EvtPaymentMethodPastDue ==
    SubscriptionUpdated("evt_pm_past_due", "cus_1", "sub_a", PAST_DUE, FALSE,
                        {"default_payment_method"}, FALSE, Null)
PaymentMethodPayloads == {EvtNew, EvtPaymentMethod, EvtPaymentMethodPastDue}

NextPaymentMethod ==
    \/ CreateUser
    \/ Tick
    \/ \E p \in PaymentMethodPayloads : WebhookInline(p)

SpecPaymentMethod == Init /\ [][NextPaymentMethod]_vars

\* --------------------------------------------------- non-primary deliveries
\* customer.subscription.updated deliveries that report a renewal attempt
\* and a first activation, both non-primary.
EvtRenewAttempt ==
    SubscriptionUpdated("evt_renew_attempt", "cus_1", "sub_a", ACTIVE, FALSE,
                        RenewalKeys, FALSE, Null)
EvtActivated ==
    SubscriptionUpdated("evt_activated", "cus_1", "sub_a", ACTIVE, FALSE,
                        {"status"}, FALSE, INCOMPLETE)
NonPrimaryPayloads == {EvtNew, EvtPastDue, EvtRenewAttempt, EvtActivated}

\* The inline pipeline on non-primary deliveries, next to records kept by
\* hand.
NextNonPrimary ==
    \/ CreateUser
    \/ Tick
    \/ \E r \in AdminRows : AdminSaveSubscription(r)
    \/ \E p \in NonPrimaryPayloads : WebhookInline(p)

SpecNonPrimary == Init /\ [][NextNonPrimary]_vars

\* ------------------------------------------------ the checkout and its offer
\* BillingMixin.get_context_data (mixins.py 39-72): the action offered to a
\* profile whose derived state is st, a paid_public plan being on offer.
stripe_session_type(st) ==
    IF st \in {"free_default.new", "free_private.expired"}
    THEN "checkout"
    ELSE IF st \in {"free_default.past_due.requires_payment_method",
                    "paid.past_due.requires_payment_method", "paid.paying"}
    THEN "portal"
    ELSE IF st = "paid.will_cancel"
    THEN "portal"
    ELSE "none"

\* CreateCheckoutSessionView.post (checkout.py 27-71): whether a checkout
\* session is created for a profile in state st, plan_found telling whether
\* plan_id names a paid_public plan.
create_checkout_session(plan_found, st) ==
    IF ~plan_found
    THEN FALSE
    ELSE IF st \notin {"free_default.new", "free_default.canceled"}
    THEN FALSE
    ELSE TRUE

\* The billing page is rendered for the account.
GetContextData ==
    /\ customer # NoRow
    /\ last' = [op |-> "get_context_data", arg |-> Null, ok |-> TRUE,
                offer |-> stripe_session_type(state(customer, subs, now))]
    /\ UNCHANGED <<customer, subs, now, dbOrder, events, STRIPE_WH_SECRET, plans>>

\* The account posts to the checkout view.
PostCheckout(plan_found) ==
    /\ customer # NoRow
    /\ last' = [op |-> "create_checkout_session", arg |-> Null,
                ok |-> create_checkout_session(plan_found,
                                               state(customer, subs, now)),
                plan_found |-> plan_found]
    /\ UNCHANGED <<customer, subs, now, dbOrder, events, STRIPE_WH_SECRET, plans>>

NextCheckout ==
    \/ Tick
    \/ GetContextData
    \/ \E f \in BOOLEAN : PostCheckout(f)

SpecCheckout == InitLimits /\ [][NextCheckout]_vars

\* ------------------------------------------ plan lookups on drawn inputs
\* The deliveries of a first invoice, for a price with and without a plan.
LookupPayloads == {EvtNew, EvtNewGone}

\* Profiles on any plan, with or without a record of subscription sub_a.
InitLookup ==
    /\ customer \in CustomerRows
    /\ subs \in {[s \in SubIds |-> IF s = "sub_a" THEN r ELSE NoRow] :
                    r \in {x \in SubscriptionRows :
                              x.created = 1 /\ x.current_period_end = 2} \cup {NoRow}}
    /\ now = 0
    /\ dbOrder = [s \in SubIds |-> IF s = "sub_a" THEN 1 ELSE 2]
    /\ events = <<>>
    /\ last = [op |-> "init", arg |-> Null, ok |-> TRUE]
    /\ STRIPE_WH_SECRET = TRUE
    /\ plans = [NoPlans EXCEPT !.free_default = 1]

NextLookup ==
    \/ Tick
    \/ \E s \in SubIds : SyncToCustomer(s)
    \/ \E p \in LookupPayloads : WebhookInline(p)

SpecLookup == InitLookup /\ [][NextLookup]_vars

\* ================================================================== claims
\* The canonical subscription of the profile and its derived state, now.
Canonical == subscription(customer, subs)
CurrentState == state(customer, subs, now)

PeriodPast(c, t) == c.current_period_end # NoTime /\ c.current_period_end < t
PeriodFuture(c, t) == c.current_period_end # NoTime /\ c.current_period_end > t

\* The states of the rows of the state table that match a profile, given its
\* canonical subscription k (rows 1 to 10 in order).
TableRows(c, S, t, k) ==
    LET none == k = Null
        st == IF k = Null THEN Null ELSE S[k].status
        flag == IF k = Null THEN FALSE ELSE S[k].cancel_at_period_end
        paid == c.plan \in PaidTypes
        null == c.current_period_end = NoTime
    IN  {x \in {"free_default.new", "free_default.canceled.missed_webhook",
                "paid.paying", "paid.will_cancel", "free_private.indefinite",
                "free_private.will_expire", "free_private.expired",
                "free_default.incomplete.requires_payment_method",
                "free_default.past_due.requires_payment_method",
                "paid.past_due.requires_payment_method"} :
           \/ x = "free_default.new" /\ c.plan = FREE_DEFAULT /\ null /\ none
           \/ /\ x = "free_default.canceled.missed_webhook"
              /\ (paid \/ c.plan = FREE_PRIVATE)
              /\ PeriodPast(c, t) /\ st = ACTIVE /\ flag
           \/ /\ x = "paid.paying"
              /\ paid /\ PeriodFuture(c, t) /\ st = ACTIVE /\ ~flag
           \/ /\ x = "paid.will_cancel"
              /\ paid /\ PeriodFuture(c, t) /\ st = ACTIVE /\ flag
           \/ x = "free_private.indefinite" /\ c.plan = FREE_PRIVATE /\ null /\ none
           \/ /\ x = "free_private.will_expire"
              /\ c.plan = FREE_PRIVATE /\ PeriodFuture(c, t) /\ none
           \/ /\ x = "free_private.expired"
              /\ c.plan = FREE_PRIVATE /\ PeriodPast(c, t) /\ none
           \/ /\ x = "free_default.incomplete.requires_payment_method"
              /\ c.plan = FREE_DEFAULT /\ null /\ st = INCOMPLETE
           \/ /\ x = "free_default.past_due.requires_payment_method"
              /\ paid /\ PeriodPast(c, t) /\ st = PAST_DUE
           \/ /\ x = "paid.past_due.requires_payment_method"
              /\ paid /\ PeriodFuture(c, t) /\ st = PAST_DUE}

\* C2: for every plan type, current_period_end (null, past or future),
\* canonical subscription and cancel flag, Customer.state is the state of the
\* one matching row of the ten-row table, at most one row matches, and the
\* state is "invalid" exactly when no row matches.
C2_StateFollowsTable ==
    (customer # NoRow /\ customer.current_period_end # now) =>
        LET rows == TableRows(customer, subs, now, Canonical)
        IN  /\ Cardinality(rows) <= 1
            /\ rows = {} <=> CurrentState = "invalid"
            /\ rows # {} => CurrentState \in rows

C2_Witness ==
    /\ customer # NoRow
    /\ customer.plan = PAID_PRIVATE
    /\ PeriodPast(customer, now)
    /\ Cardinality(stripesubscription_set(subs)) = 2
    /\ CurrentState = "free_default.past_due.requires_payment_method"

\* The profile has the shape of paid.will_cancel: a paid plan with a period
\* end, and a canonical subscription that is active and flagged to cancel.
WillCancelShape ==
    /\ customer # NoRow
    /\ customer.plan \in PaidTypes
    /\ customer.current_period_end # NoTime
    /\ Canonical # Null
    /\ subs[Canonical].status = ACTIVE
    /\ subs[Canonical].cancel_at_period_end

\* C3: a profile of the paid.will_cancel shape that only sees the clock
\* advance derives free_default.canceled.missed_webhook at every instant
\* after its current_period_end.
C3_LapsedWillCancelIsMissedWebhook ==
    [][(/\ WillCancelShape
        /\ UNCHANGED <<customer, subs, dbOrder, events>>
        /\ now' > customer.current_period_end)
       => CurrentState' = "free_default.canceled.missed_webhook"]_vars

C3_Witness ==
    /\ WillCancelShape
    /\ last.op = "tick"
    /\ now = customer.current_period_end + 1
    /\ CurrentState = "free_default.canceled.missed_webhook"

\* C4: with current_period_end equal to the current time a paid profile is
\* not expired: its state is paid.paying, paid.will_cancel or
\* paid.past_due.requires_payment_method as the canonical subscription says,
\* and get_limit reads the profile's own plan.
C4_BoundaryIsNotExpired ==
    (/\ customer # NoRow
     /\ customer.plan \in PaidTypes
     /\ customer.current_period_end = now
     /\ Canonical # Null
     /\ subs[Canonical].status \in {ACTIVE, PAST_DUE}) =>
        /\ get_limit_plan(customer, now) = customer.plan
        /\ CurrentState =
             IF subs[Canonical].status = PAST_DUE
             THEN "paid.past_due.requires_payment_method"
             ELSE IF subs[Canonical].cancel_at_period_end
             THEN "paid.will_cancel"
             ELSE "paid.paying"

\* The newest creation instant among a set of rows.
IsNewestOf(k, X) == k \in X /\ \A b \in X : subs[k].created >= subs[b].created

\* C5: on a paid plan Customer.subscription is the most recently created
\* active record if there is one, else the most recently created past_due
\* record if there is one, else the most recently created record, and None
\* when the profile has no record.
C5_SubscriptionPriority ==
    (customer # NoRow /\ customer.plan \in PaidTypes) =>
        LET all == stripesubscription_set(subs)
            act == {s \in all : subs[s].status = ACTIVE}
            due == {s \in all : subs[s].status = PAST_DUE}
        IN  /\ all = {} => Canonical = Null
            /\ act # {} => IsNewestOf(Canonical, act)
            /\ (act = {} /\ due # {}) => IsNewestOf(Canonical, due)
            /\ (act = {} /\ due = {} /\ all # {}) => IsNewestOf(Canonical, all)

C5_Witness ==
    /\ customer # NoRow
    /\ customer.plan \in PaidTypes
    /\ \E a, b \in SubIds :
          /\ a # b
          /\ subs[a] # NoRow /\ subs[b] # NoRow
          /\ subs[a].status = ACTIVE /\ subs[b].status = PAST_DUE
          /\ subs[a].created < subs[b].created
          /\ Canonical = a

\* C6: off a paid plan Customer.subscription never is a canceled or
\* incomplete_expired record and is None when every record is one of those,
\* so a profile back on FreeDefault with no period end derives
\* free_default.new; on a paid plan such records stay eligible.
C6_DeletedRecordsHiddenOffPaidPlan ==
    customer # NoRow =>
        LET all == stripesubscription_set(subs)
            gone == {s \in all : subs[s].status \in {CANCELED, INCOMPLETE_EXPIRED}}
        IN  /\ (customer.plan \notin PaidTypes /\ Canonical # Null)
                  => Canonical \notin gone
            /\ (customer.plan \notin PaidTypes /\ all = gone) => Canonical = Null
            /\ (/\ customer.plan = FREE_DEFAULT
                /\ customer.current_period_end = NoTime
                /\ all = gone) => CurrentState = "free_default.new"
            /\ (customer.plan \in PaidTypes /\ all = gone /\ all # {})
                  => Canonical \in gone

C6_Witness ==
    /\ customer # NoRow
    /\ last.op = "sync_to_customer"
    /\ last.ok
    /\ subs[last.arg].status = CANCELED
    /\ \A s \in SubIds : subs[s] # NoRow /\ subs[s].status \in {CANCELED, INCOMPLETE_EXPIRED}
    /\ customer.plan = FREE_DEFAULT
    /\ Canonical = Null
    /\ CurrentState = "free_default.new"

LastEvent == events[Len(events)]

\* C1: in every state reached from a new profile by processed webhook
\* events, account saves and deletes and advances of the clock,
\* Customer.state is one of the ten named states and never "invalid".
C1_StateNeverInvalid ==
    customer # NoRow => CurrentState # "invalid"

\* C8: processing an event that reports a subscription other than the
\* profile's canonical one creates or updates that subscription's record
\* and leaves the profile's plan and current_period_end as they were.
C8_NonCanonicalEventLeavesProfile ==
    [][(/\ last'.op = "webhook"
        /\ customer # NoRow
        /\ LastEvent'.status \in {PROCESSED, IGNORED}
        /\ LastEvent'.payload.subscription # Canonical)
       => /\ subs'[LastEvent'.payload.subscription] # NoRow
          /\ customer'.plan = customer.plan
          /\ customer'.current_period_end = customer.current_period_end]_vars

\* C9: processing the same NewSub payload, or the same DeleteSub payload, a
\* second time leaves the profile and the subscription records as the first
\* processing left them, and the second processing ends Processed too.
C9_ReprocessingIsIdempotent ==
    [][(/\ last.op = "webhook"
        /\ last'.op = "webhook"
        /\ Len(events) >= 1
        /\ Len(events') = Len(events) + 1
        /\ LastEvent'.payload = LastEvent.payload
        /\ LastEvent.status = PROCESSED
        /\ LastEvent.type \in {NEW_SUB, DELETE_SUB})
       => /\ customer' = customer
          /\ subs' = subs
          /\ LastEvent'.status = PROCESSED]_vars

C9_Witness ==
    /\ last.op = "webhook"
    /\ Len(events) >= 2
    /\ events[Len(events) - 1].payload = LastEvent.payload
    /\ events[Len(events) - 1].status = PROCESSED
    /\ LastEvent.status = PROCESSED
    /\ LastEvent.type = NEW_SUB
    /\ customer # NoRow
    /\ customer.subscription_id = LastEvent.payload.subscription

\* C10: of two deliveries that carry the same external event id, exactly one
\* ledger row ends Processed or Error; the other is rejected or has no
\* effect.
C10_SameEventIdAppliedOnce ==
    \A i, j \in 1..Len(events) :
        (i # j /\ events[i].payload.id = events[j].payload.id) =>
            ~(/\ events[i].status \in {PROCESSED, ERROR}
              /\ events[j].status \in {PROCESSED, ERROR})

\* The Customer row after process_stripe_event has run on a delivery of
\* payload p against row c, and what a profile shows: its plan, its period
\* end and its derived state.
RunOn(p, c) == process_stripe_event(NewEvent(p, TRUE), c).cust
ProfileView(c) == <<c.plan, c.current_period_end, state(c, subs, now)>>

\* Whether payload p resolves to the account of row c.
Resolves(p, c) ==
    LET link == preprocess_customer(preprocess_payload_type(p).type, p, c)
    IN  ~link.raised /\ link.found

\* C11: for any two events addressed to the same account, the profile's
\* plan, current_period_end and state after both have been processed are
\* the same whichever of the two is processed first.
C11_OrderIndependent ==
    customer # NoRow =>
        \A p, q \in WorkerPayloads :
            (Resolves(p, customer) /\ Resolves(q, customer)) =>
                ProfileView(RunOn(q, RunOn(p, customer)))
                    = ProfileView(RunOn(p, RunOn(q, customer)))

\* C12: from paid.paying a processed CancelSub event for the profile's
\* subscription gives paid.will_cancel; from paid.will_cancel a processed
\* ReactivateSub event gives paid.paying; from either a processed DeleteSub
\* event gives free_default.new.
C12_CancelReactivateDelete ==
    [][(/\ last'.op = "webhook"
        /\ customer # NoRow
        /\ LastEvent'.status = PROCESSED
        /\ LastEvent'.user
        /\ LastEvent'.payload.subscription = Canonical)
       => /\ (CurrentState = "paid.paying" /\ LastEvent'.type = CANCEL_SUB)
                => CurrentState' = "paid.will_cancel"
          /\ (CurrentState = "paid.will_cancel" /\ LastEvent'.type = REACTIVATE_SUB)
                => CurrentState' = "paid.paying"
          /\ (CurrentState \in {"paid.paying", "paid.will_cancel"}
                /\ LastEvent'.type = DELETE_SUB)
                => CurrentState' = "free_default.new"]_vars

\* C13: processing a CancelSub or ReactivateSub event leaves the profile's
\* plan and current_period_end as they were and touches no subscription
\* record; only the will-cancel indication kept with the profile changes
\* (off on a cancelation, ok on a reactivation), so nothing is downgraded.
C13_CancelReactivateFrame ==
    [][(/\ last'.op = "webhook"
        /\ customer # NoRow
        /\ LastEvent'.type \in {CANCEL_SUB, REACTIVATE_SUB})
       => /\ LastEvent'.status = PROCESSED
          /\ customer'.plan = customer.plan
          /\ customer'.current_period_end = customer.current_period_end
          /\ customer'.payment_state =
                 (IF LastEvent'.type = CANCEL_SUB THEN "off" ELSE "ok")
          /\ subs' = subs]_vars

C13_Witness ==
    /\ last.op = "webhook"
    /\ LastEvent.type = CANCEL_SUB
    /\ LastEvent.status = PROCESSED
    /\ customer # NoRow
    /\ customer.plan = PAID_PUBLIC
    /\ customer.current_period_end = 1
    /\ customer.payment_state = "off"

\* C14: after a DeleteSub event for the profile's canonical subscription has
\* been processed the profile is on FreeDefault with no period end and its
\* state is free_default.new, also when the paid period had not ended.
C14_DeleteResetsProfile ==
    [][(/\ last'.op = "webhook"
        /\ customer # NoRow
        /\ LastEvent'.type = DELETE_SUB
        /\ LastEvent'.status = PROCESSED
        /\ LastEvent'.user
        /\ LastEvent'.payload.subscription = Canonical)
       => /\ customer'.plan = FREE_DEFAULT
          /\ customer'.current_period_end = NoTime
          /\ CurrentState' = "free_default.new"]_vars

\* C15: processing a primary RenewSub event sets the profile's
\* current_period_end to the period end the invoice reports and changes no
\* other field of the profile; a profile in paid.paying stays in paid.paying.
C15_RenewChangesOnlyPeriodEnd ==
    [][(/\ last'.op = "webhook"
        /\ customer # NoRow
        /\ LastEvent'.type = RENEW_SUB
        /\ LastEvent'.primary
        /\ LastEvent'.status = PROCESSED)
       => /\ customer' = [customer EXCEPT !.current_period_end =
                                              fromtimestamp(LastEvent'.payload.period_end)]
          /\ CurrentState = "paid.paying" => CurrentState' = "paid.paying"]_vars

\* C15, amended: a processed primary RenewSub event sets current_period_end
\* to the reported period end and leaves the plan and the payment state
\* alone; the stored customer id becomes the event's and a stored
\* subscription id that differs becomes the event's; a profile in
\* paid.paying stays there when the reported period end is later than now.
C15_RenewFrameWithRepair ==
    [][(/\ last'.op = "webhook"
        /\ customer # NoRow
        /\ LastEvent'.type = RENEW_SUB
        /\ LastEvent'.primary
        /\ LastEvent'.status = PROCESSED)
       => LET p == LastEvent'.payload
          IN  /\ customer'.current_period_end = fromtimestamp(p.period_end)
              /\ customer'.plan = customer.plan
              /\ customer'.payment_state = customer.payment_state
              /\ customer'.customer_id = p.customer
              /\ customer'.subscription_id =
                     (IF customer.subscription_id = Null
                      THEN Null ELSE p.subscription)
              /\ subs' = subs
              /\ (CurrentState = "paid.paying" /\ fromtimestamp(p.period_end) > now)
                     => CurrentState' = "paid.paying"]_vars

C15_Witness ==
    /\ last.op = "webhook"
    /\ Len(events) = 2
    /\ events[1].payload = EvtNew
    /\ events[1].status = PROCESSED
    /\ events[2].payload = EvtRenew
    /\ events[2].status = PROCESSED
    /\ customer # NoRow
    /\ customer.plan = PAID_PUBLIC
    /\ customer.current_period_end = 2
    /\ CurrentState = "paid.paying"

\* Whether ledger row e records a processed renewal payment failure for
\* subscription k.
RenewalFailureFor(e, k) ==
    /\ e.type = PAYMENT_FAIL
    /\ e.primary
    /\ e.status = PROCESSED
    /\ e.user
    /\ e.payload.billing_reason = "subscription_cycle"
    /\ e.payload.subscription = k

\* C16: after a renewal payment failure has been processed for the profile's
\* canonical subscription, plan and current_period_end are unchanged and the
\* state is paid.past_due.requires_payment_method while current_period_end
\* has not passed; with no further event the state is
\* free_default.past_due.requires_payment_method once it has passed.
C16_PaymentFailureIsPastDue ==
    [][/\ (/\ last'.op = "webhook"
           /\ customer # NoRow
           /\ Canonical # Null
           /\ RenewalFailureFor(LastEvent', Canonical))
          => /\ customer'.plan = customer.plan
             /\ customer'.current_period_end = customer.current_period_end
             /\ (customer.plan \in PaidTypes /\ ~PeriodPast(customer, now))
                   => CurrentState' = "paid.past_due.requires_payment_method"
       /\ (/\ last'.op = "tick"
           /\ customer # NoRow
           /\ Len(events) >= 1
           /\ Canonical # Null
           /\ RenewalFailureFor(LastEvent, Canonical)
           /\ customer.plan \in PaidTypes
           /\ PeriodPast(customer, now'))
          => CurrentState' = "free_default.past_due.requires_payment_method"]_vars

\* C17: when no account can be resolved for an event, by customer id or by
\* the e-mail of the Stripe customer, a DeleteSub event ends Processed with
\* no account linked and nothing changed, and an event of any other type
\* ends in Error with no account linked.
C17_UnresolvedAccount ==
    [][(/\ last'.op = "webhook"
        /\ LastEvent'.payload.signed
        /\ ~Resolves(LastEvent'.payload, customer))
       => /\ ~LastEvent'.user
          /\ IF preprocess_payload_type(LastEvent'.payload).type = DELETE_SUB
             THEN /\ LastEvent'.status = PROCESSED
                  /\ customer' = customer
                  /\ subs' = subs
             ELSE LastEvent'.status = ERROR]_vars

\* C18: after an event that is linked to an account and does not end in
\* Error, the profile's stored customer id is the one the event reports,
\* whether it was missing or different before, and the event ends Processed
\* or Ignored; a linked event ends in Error only when the plan of its price
\* does not exist.
C18_CustomerIdFollowsEvent ==
    [][(/\ last'.op = "webhook"
        /\ customer # NoRow
        /\ LastEvent'.user)
       => /\ LastEvent'.status # ERROR =>
                /\ customer'.customer_id = LastEvent'.payload.customer
                /\ LastEvent'.status \in {PROCESSED, IGNORED}
          /\ LastEvent'.status = ERROR =>
                /\ LastEvent'.type = NEW_SUB
                /\ PlansWithPrice(LastEvent'.payload.price_id) = {}]_vars

C18_Witness ==
    /\ last.op = "webhook"
    /\ Len(events) = 2
    /\ events[1].payload = EvtNewB
    /\ events[1].status = PROCESSED
    /\ events[2].payload.customer = "cus_1"
    /\ events[2].status = PROCESSED
    /\ events[2].user
    /\ customer # NoRow
    /\ customer.customer_id = "cus_1"

\* Whether a step of process_stripe_event raises on payload p with the
\* Customer row c in the database: the signature check, the lookup of the
\* event's customer id, the lookup of the account, or the lookup of the plan.
StepRaises(p, c) ==
    \/ STRIPE_WH_SECRET /\ ~p.signed
    \/ p.ptype \notin InvoiceTypes \cup SubscriptionTypes
    \/ ~Resolves(p, c)
    \/ /\ p.ptype = "invoice.paid"
       /\ p.billing_reason = "subscription_create"
       /\ p.price_id \notin {PlanPriceId(x) : x \in PaidTypes}

\* C19: no exception raised while an event is processed leaves
\* process_stripe_event: the call returns with the event saved, in Error
\* with the traceback in its note when a step raised, Processed or Ignored
\* otherwise.
C19_ExceptionsBecomeError ==
    [][last'.op = "webhook" =>
          /\ LastEvent'.pc = "done"
          /\ IF StepRaises(LastEvent'.payload, customer)
             THEN LastEvent'.status = ERROR /\ LastEvent'.note = "traceback"
             ELSE LastEvent'.status \in {PROCESSED, IGNORED}]_vars

C19_Witness ==
    /\ last.op = "webhook"
    /\ LastEvent.payload = EvtUnsigned
    /\ LastEvent.status = ERROR
    /\ LastEvent.note = "traceback"
    /\ LastEvent.pc = "done"

\* C20: when processing an event ends in Error, every field of the profile
\* and every subscription record has the value it had before the processing
\* of that event started.
C20_ErrorChangesNothing ==
    [][(last'.op = "webhook" /\ LastEvent'.status = ERROR)
       => /\ customer' = customer
          /\ subs' = subs]_vars

\* C21: a NewSub event, or the sync of an active record, whose price id
\* matches no plan fails (the event ends in Error) and leaves the profile's
\* plan and current_period_end as they were; whenever either puts the
\* profile on a paid plan, that plan has the price id it was given.
C21_PlanNotFound ==
    [][/\ (/\ last'.op = "webhook"
           /\ customer # NoRow
           /\ LastEvent'.type = NEW_SUB
           /\ LastEvent'.primary
           /\ PlansWithPrice(LastEvent'.payload.price_id) = {})
          => /\ LastEvent'.status = ERROR
             /\ customer'.plan = customer.plan
             /\ customer'.current_period_end = customer.current_period_end
       /\ (/\ last'.op = "sync_to_customer"
           /\ subs[last'.arg].status = ACTIVE
           /\ PlansWithPrice(subs[last'.arg].price_id) = {})
          => /\ ~last'.ok
             /\ customer'.plan = customer.plan
             /\ customer'.current_period_end = customer.current_period_end
       /\ (/\ last'.op = "webhook"
           /\ customer # NoRow
           /\ LastEvent'.type = NEW_SUB
           /\ LastEvent'.status = PROCESSED)
          => PlanPriceId(customer'.plan) = LastEvent'.payload.price_id
       /\ (/\ last'.op = "sync_to_customer"
           /\ last'.ok
           /\ subs[last'.arg].status = ACTIVE)
          => PlanPriceId(customer'.plan) = subs[last'.arg].price_id]_vars

C21_Witness ==
    /\ last.op = "webhook"
    /\ LastEvent.payload = EvtNewGone
    /\ LastEvent.status = ERROR
    /\ customer.plan = FREE_PRIVATE
    /\ customer.current_period_end = 2
    /\ subs["sub_a"] # NoRow
    /\ subs["sub_a"].price_id = "price_gone"

\* C22: a delivery whose signature does not verify, processed with
\* verification asked for, ends in Error before it is classified or linked
\* to an account, and changes no profile and no subscription.
C22_SignatureAlwaysVerified ==
    [][(/\ last'.op \in {"webhook", "replay"}
        /\ LastEvent'.verify_signature
        /\ ~LastEvent'.payload.signed)
       => /\ LastEvent'.status = ERROR
          /\ LastEvent'.type = Null
          /\ ~LastEvent'.user
          /\ customer' = customer
          /\ subs' = subs]_vars

\* C22, amended: the same when a webhook secret is set; without one, as in
\* a replay, no signature is verified.
C22_SignatureVerifiedWithSecret ==
    [][(/\ last'.op \in {"webhook", "replay"}
        /\ LastEvent'.verify_signature
        /\ STRIPE_WH_SECRET
        /\ ~LastEvent'.payload.signed)
       => /\ LastEvent'.status = ERROR
          /\ LastEvent'.type = Null
          /\ ~LastEvent'.user
          /\ customer' = customer
          /\ subs' = subs]_vars

C22_Witness ==
    /\ last.op = "webhook"
    /\ STRIPE_WH_SECRET
    /\ LastEvent.payload = EvtUnsigned
    /\ LastEvent.verify_signature
    /\ LastEvent.status = ERROR
    /\ LastEvent.type = Null
    /\ customer # NoRow
    /\ customer.customer_id = Null

\* The statuses a ledger row may take next.
TerminalStatuses == {PROCESSED, IGNORED, ERROR}
StatusMayFollow(a, b) ==
    \/ a = b
    \/ a = EVENT_NEW /\ b = PENDING
    \/ a = PENDING /\ b \in TerminalStatuses

\* C23: the status of a ledger row only moves new -> pending -> processed,
\* ignored or error, and a row that is processed, ignored or error keeps
\* its status whatever happens next, a second invocation of
\* process_stripe_event for it included.
C23_StatusOnlyMovesForward ==
    [][\A i \in 1..Len(events) :
           StatusMayFollow(events[i].status, events'[i].status)]_vars

WellFormed(b) == b.is_json /\ b.is_object /\ b.has_type /\ b.has_id

\* C25: a request whose body is a JSON object with 'id' and 'type' creates
\* exactly one ledger row, with status new, and is answered 201; a body
\* that is not JSON, not an object, or lacks 'id' or 'type' is answered 400,
\* creates no row and starts no processing.
C25_WebhookAnswers ==
    [][/\ (last'.op \in {"webhook", "webhook_rejected"}
            => (last'.op = "webhook" <=> WellFormed(last'.body)))
       /\ (last'.op = "webhook"
            => /\ last'.response = 201
               /\ Len(events') = Len(events) + 1
               /\ SubSeq(events', 1, Len(events)) = events
               /\ events'[Len(events')].status = EVENT_NEW
               /\ events'[Len(events')].payload.id = last'.arg
               /\ events'[Len(events')].pc = "queued"
               /\ customer' = customer
               /\ subs' = subs)
       /\ (last'.op = "webhook_rejected"
            => /\ last'.response = 400
               /\ events' = events
               /\ customer' = customer
               /\ subs' = subs)]_vars

\* The payload as Stripe signs it.
Signed(p) == [p EXCEPT !.signed = TRUE]

\* C26: replaying a stored event creates exactly one new ledger row with the
\* same event id, body and headers, created with status new; the row goes
\* through the pipeline a signed delivery of the same body goes through,
\* with only the signature check left out; every row stored before,
\* the replayed one included, keeps its status, note, body and account.
C26_ReplayAddsOneRow ==
    [][last'.op = "replay" =>
          LET src == events[last'.arg]
              row == events'[Len(events')]
              delivery == process_stripe_event(NewEvent(Signed(src.payload), TRUE),
                                               customer)
          IN  /\ Len(events') = Len(events) + 1
              /\ SubSeq(events', 1, Len(events)) = events
              /\ row.payload = src.payload
              /\ ReplayOf(src).status = EVENT_NEW
              /\ ~row.verify_signature
              /\ row.status = delivery.event.status
              /\ row.type = delivery.event.type
              /\ row.primary = delivery.event.primary
              /\ row.user = delivery.event.user
              /\ customer' = delivery.cust
              /\ subs' = subs]_vars

C26_Witness ==
    /\ last.op = "replay"
    /\ Len(events) = 2
    /\ events[1].payload = EvtUnsigned
    /\ events[1].status = ERROR
    /\ events[2].payload = EvtUnsigned
    /\ events[2].status = PROCESSED
    /\ STRIPE_WH_SECRET
    /\ customer # NoRow
    /\ customer.plan = PAID_PUBLIC

\* C27: a save of an account without a profile creates one with the
\* FreeDefault plan, no current_period_end and state free_default.new; a
\* save of an account that has a profile creates none and keeps the one it
\* has, so every saved account has exactly one profile.
C27_OneProfilePerAccount ==
    [][last'.op = "save_user" =>
          /\ customer' # NoRow
          /\ IF customer = NoRow
             THEN /\ last'.created
                  /\ customer'.plan = FREE_DEFAULT
                  /\ customer'.current_period_end = NoTime
                  /\ state(customer', subs', now') = "free_default.new"
             ELSE /\ ~last'.created
                  /\ customer' = customer]_vars

C27_Witness ==
    /\ last.op = "save_user"
    /\ ~last.created
    /\ customer # NoRow
    /\ customer.plan = PAID_PUBLIC
    /\ CurrentState = "paid.paying"

\* C29: when an account whose canonical subscription is active is
\* hard-deleted or saved as inactive, the immediate cancellation of that
\* subscription is asked of the processor, whatever the profile's
\* current_period_end and the record's cancel flag; when the profile has
\* no subscription nothing is asked.
C29_ActiveSubscriptionIsCancelled ==
    [][(/\ customer # NoRow
        /\ \/ last'.op = "delete_user"
           \/ last'.op = "save_user" /\ last'.arg = "inactive")
          => /\ (Canonical # Null /\ subs[Canonical].status = ACTIVE)
                  => last'.request = [called |-> TRUE,
                                      subscription_id |-> Canonical,
                                      immediate |-> TRUE]
             /\ Canonical = Null => ~last'.request.called]_vars

C28_AtMostOneFreeDefault ==
    plans.free_default <= 1

C28_Witness ==
    /\ last.op = "get_or_create_insert"
    /\ ~last.ok
    /\ last.arg = "billing_init"
    /\ plans.pc["save_a"] = "done"
    /\ plans.pc["save_b"] = "missing"
    /\ plans.free_default = 1

\* C31: a hard delete of the account deletes the profile and no other row:
\* every subscription record stays, with no profile reference, every ledger
\* row stays, with no account reference, and a DeleteSub delivery for such
\* a subscription that arrives afterwards is still entered in the ledger.
C31_HardDeleteKeepsRecords ==
    [][/\ (last'.op = "delete_user"
            => /\ customer' = NoRow
               /\ \A s \in SubIds :
                     IF subs[s] = NoRow
                     THEN subs'[s] = NoRow
                     ELSE subs'[s] = [subs[s] EXCEPT !.customer = FALSE]
               /\ Len(events') = Len(events)
               /\ \A i \in 1..Len(events) :
                     events'[i] = [events[i] EXCEPT !.user = FALSE])
       /\ (/\ last'.op = "webhook"
           /\ last'.arg = EvtDelete.id
           /\ customer = NoRow
           /\ subs[EvtDelete.subscription] # NoRow)
            => /\ Len(events') = Len(events) + 1
               /\ SubSeq(events', 1, Len(events)) = events
               /\ events'[Len(events')].payload = EvtDelete
               /\ subs' = subs]_vars

C31_Witness ==
    /\ last.op = "webhook"
    /\ customer = NoRow
    /\ subs["sub_a"] # NoRow
    /\ ~subs["sub_a"].customer
    /\ Len(events) = 2
    /\ events[1].payload = EvtNew
    /\ ~events[1].user
    /\ events[2].payload = EvtDelete

\* The plan the claims name as the effective one.
PeriodIsPast == customer.current_period_end # NoTime /\ customer.current_period_end < now
EffectivePlan ==
    IF PeriodIsPast \/ (customer.plan \in PaidTypes /\ customer.current_period_end = NoTime)
    THEN FREE_DEFAULT
    ELSE customer.plan

\* C32: get_limit reads the FreeDefault plan when current_period_end is in
\* the past, or the plan is a paid type and current_period_end is null, and
\* the profile's own plan otherwise; it returns that plan's PlanLimit value
\* when there is one, else the Limit's default, and raises when no Limit of
\* the name exists.
C32_GetLimit ==
    last.op = "get_limit" =>
        /\ last.plan = EffectivePlan
        /\ IF last.tables.plan_limit[EffectivePlan] # NoValue
           THEN last.ok /\ last.value = last.tables.plan_limit[EffectivePlan]
           ELSE IF last.tables.default # NoValue
           THEN last.ok /\ last.value = last.tables.default
           ELSE ~last.ok

C32_Witness ==
    /\ last.op = "get_limit"
    /\ last.ok
    /\ customer.plan = FREE_PRIVATE
    /\ customer.current_period_end = 1
    /\ now = 2
    /\ last.tables.plan_limit[FREE_PRIVATE] = 0
    /\ last.tables.plan_limit[FREE_DEFAULT] = 50
    /\ last.value = 50

\* The derived states that start with 'paid.' and with 'free_default.'.
PaidStates ==
    {"paid.paying", "paid.will_cancel", "paid.past_due.requires_payment_method"}
FreeDefaultStates ==
    {"free_default.new", "free_default.canceled.missed_webhook",
     "free_default.incomplete.requires_payment_method",
     "free_default.past_due.requires_payment_method"}

\* C38: whenever Customer.state starts with 'paid.', the plan is a paid
\* type, current_period_end is set and not in the past, and get_limit reads
\* the profile's own plan; whenever the state starts with 'free_default.'
\* or is free_private.expired, get_limit reads the FreeDefault plan.
C38_StateAgreesWithLimits ==
    customer # NoRow =>
        /\ CurrentState \in PaidStates
            => /\ customer.plan \in PaidTypes
               /\ customer.current_period_end # NoTime
               /\ customer.current_period_end >= now
               /\ get_limit_plan(customer, now) = customer.plan
        /\ CurrentState \in FreeDefaultStates \cup {"free_private.expired"}
            => get_limit_plan(customer, now) = FREE_DEFAULT

C38_Witness ==
    /\ customer # NoRow
    /\ CurrentState = "paid.past_due.requires_payment_method"
    /\ customer.current_period_end = now
    /\ last.op = "tick"

\* C39: CustomerSerializer.get_plan and Customer.get_limit resolve the same
\* plan for every plan type and every current_period_end, null, past, now
\* or future.
C39_ShownPlanIsLimitPlan ==
    customer # NoRow => get_plan(customer, now) = get_limit_plan(customer, now)

\* C33: a delivery whose notification type the classifier does not know is
\* entered in the ledger, classified Unknown and ends Ignored, and no
\* profile or subscription record is changed.
C33_UnknownTypeIsIgnored ==
    [][(/\ last'.op = "webhook"
        /\ LastEvent'.payload.ptype \notin InvoiceTypes \cup SubscriptionTypes)
          => /\ Len(events') = Len(events) + 1
             /\ LastEvent'.type = UNKNOWN
             /\ LastEvent'.status = IGNORED
             /\ customer' = customer
             /\ subs' = subs]_vars

\* The classification the table of notification types gives payload p.
FlagTurned(p, from, to) ==
    /\ "cancel_at_period_end" \in p.prev_keys
    /\ p.prev_cancel = from
    /\ p.cancel_at_period_end = to
StatusTurned(p, from, to) ==
    /\ "status" \in p.prev_keys
    /\ p.prev_status = from
    /\ p.status = to
Cycle(p) == p.billing_reason \in {"subscription_create", "subscription_cycle"}
TableEntry(p) ==
    CASE p.ptype = "invoice.paid" /\ p.billing_reason = "subscription_create"
            -> <<NEW_SUB, TRUE>>
      [] p.ptype = "invoice.paid" /\ p.billing_reason = "subscription_cycle"
            -> <<RENEW_SUB, TRUE>>
      [] p.ptype = "invoice.payment_failed" /\ Cycle(p)
            -> <<PAYMENT_FAIL, TRUE>>
      [] p.ptype = "customer.subscription.deleted"
            -> <<DELETE_SUB, TRUE>>
      [] p.ptype = "customer.subscription.updated" /\ FlagTurned(p, FALSE, TRUE)
            -> <<CANCEL_SUB, TRUE>>
      [] p.ptype = "customer.subscription.updated" /\ FlagTurned(p, TRUE, FALSE)
            -> <<REACTIVATE_SUB, TRUE>>
      [] /\ p.ptype = "customer.subscription.updated"
         /\ ~FlagTurned(p, FALSE, TRUE) /\ ~FlagTurned(p, TRUE, FALSE)
         /\ p.prev_keys = RenewalKeys
            -> <<RENEW_SUB, FALSE>>
      [] /\ p.ptype = "customer.subscription.updated"
         /\ ~FlagTurned(p, FALSE, TRUE) /\ ~FlagTurned(p, TRUE, FALSE)
         /\ StatusTurned(p, INCOMPLETE, ACTIVE)
            -> <<NEW_SUB, FALSE>>
      [] /\ p.ptype = "customer.subscription.updated"
         /\ ~FlagTurned(p, FALSE, TRUE) /\ ~FlagTurned(p, TRUE, FALSE)
         /\ StatusTurned(p, ACTIVE, PAST_DUE)
            -> <<PAYMENT_FAIL, FALSE>>
      [] /\ p.ptype = "customer.subscription.updated"
         /\ ~FlagTurned(p, FALSE, TRUE) /\ ~FlagTurned(p, TRUE, FALSE)
         /\ StatusTurned(p, PAST_DUE, ACTIVE)
            -> <<PAYMENT_FIX, FALSE>>
      [] OTHER -> <<UNKNOWN, PrimaryDefault>>

C35_PaymentMethodUpdate ==
    [][(/\ last'.op = "webhook"
        /\ customer # NoRow
        /\ LastEvent'.payload.ptype = "customer.subscription.updated"
        /\ LastEvent'.payload.prev_keys = {"default_payment_method"})
          => /\ LastEvent'.primary
             /\ LastEvent'.status = PROCESSED
             /\ LastEvent'.payload.status = ACTIVE
                  => LastEvent'.type = "update_payment_method"
             /\ LastEvent'.payload.status \in {INCOMPLETE, PAST_DUE}
                  => LastEvent'.type = PAYMENT_FIX]_vars

\* C36: a non-primary event whose account is resolved ends Ignored with the
\* ledger row linked to the account, and the profile's plan and
\* current_period_end and every subscription record stay as they were.
C36_NonPrimaryIsIgnored ==
    [][(/\ last'.op = "webhook"
        /\ preprocess_payload_type(LastEvent'.payload).primary = FALSE
        /\ Resolves(LastEvent'.payload, customer))
          => /\ LastEvent'.status = IGNORED
             /\ LastEvent'.user
             /\ customer'.plan = customer.plan
             /\ customer'.current_period_end = customer.current_period_end
             /\ subs' = subs]_vars

C36_Witness ==
    /\ last.op = "webhook"
    /\ LastEvent.payload = EvtPastDue
    /\ LastEvent.status = IGNORED
    /\ LastEvent.user
    /\ customer # NoRow
    /\ customer.plan = PAID_PUBLIC
    /\ customer.current_period_end = 1
    /\ subs["sub_a"] # NoRow
    /\ subs["sub_a"].status = ACTIVE

\* C37: process_stripe_event saves status pending for the row before it
\* checks the signature, asks the processor, or reads or writes a profile:
\* every later step runs on a row that is pending, and a task interrupted
\* after its first step leaves the row pending, not new.
C37_PendingComesFirst ==
    [][/\ last'.op \in {"preprocess", "finish"}
            => events[last'.arg].status = PENDING
       /\ \A i \in 1..Len(events') :
             events'[i].pc \in {"pending", "linked"}
                => events'[i].status = PENDING]_vars

C37_Witness ==
    /\ last.op = "preprocess"
    /\ Len(events) = 1
    /\ events[1].pc = "linked"
    /\ events[1].status = PENDING
    /\ customer # NoRow
    /\ customer.customer_id = "cus_1"

\* C40: every derived state in which BillingMixin offers the checkout is a
\* state in which CreateCheckoutSessionView creates a session for a valid
\* plan; in every state the view rejects, the mixin offers the portal or
\* nothing.
C40_OfferedCheckoutIsAccepted ==
    customer # NoRow =>
        /\ stripe_session_type(CurrentState) = "checkout"
              => create_checkout_session(TRUE, CurrentState)
        /\ ~create_checkout_session(TRUE, CurrentState)
              => stripe_session_type(CurrentState) \in {"portal", "none"}

====
